---------------------------- MODULE Spec2Model ----------------------------
(***************************************************************************)
(* A model of serde-json-core: the fixed-buffer JSON writer (src/ser) and  *)
(* the cursor-driven JSON reader (src/de).                                 *)
(*                                                                         *)
(* Bytes are the integers 0..255, byte strings are sequences of bytes.     *)
(* Rust slices are 0-indexed; the sequences here are 1-indexed, so the     *)
(* byte at Rust index i of s is s[i + 1].                                  *)
(***************************************************************************)
EXTENDS Integers, Sequences, FiniteSets, TLC

VARIABLES
    buf,             \* Serializer.buf: the caller's output buffer
    current_length,  \* Serializer.current_length: the write cursor
    panicked,        \* an index out of bounds or an arithmetic overflow panicked
    op,              \* the last operation called on the writer, with its arguments
    ret,             \* what that operation returned
    input,           \* the bytes handed to from_slice
    target,          \* the type from_slice is asked to produce
    result,          \* what from_slice returned
    pc,              \* how far the caller of from_slice has got
    span,            \* EscapedStr.0: the escaped text a caller wrapped
    remaining,       \* EscapedStringFragmentIter.0: the text not yet iterated
    fragments,       \* the items next() yielded so far, each with as_str() behind it
    builder,         \* the container builder a caller holds: its kind and `first`
    children,        \* the children <<key, value>> the caller handed to the builder
    access,          \* the last operation on a variant access, and the cursor in front of it
    sinks            \* SliceSerializer and Slice, driven by the calls the Serializer gets

ser_vars == <<buf, current_length, panicked, op, ret>>

de_vars == <<input, target, result, pc>>

str_vars == <<span, remaining, fragments>>

\* The variables of the parts a caller of the writer or the reader leaves alone.
builder_vars == <<builder, children>>

ext_vars == <<str_vars, builder_vars, access, sinks>>

vars == <<ser_vars, de_vars, ext_vars>>

-----------------------------------------------------------------------------
(* Bounds of the model. *)

\* Largest capacity of an output buffer handed to the writer.
MaxCap == 14

\* Longest run of bytes handed to extend_from_slice by the raw sink actions.
MaxRun == 3

\* Longest string (in characters) handed to serialize_str.
MaxStrLen == 2

-----------------------------------------------------------------------------
(* Bytes. *)

Byte == 0..255

RECURSIVE Pow2(_)
Pow2(n) == IF n = 0 THEN 1 ELSE 2 * Pow2(n - 1)

RECURSIVE Concat(_)
\* The concatenation of a sequence of byte strings.
Concat(ss) == IF ss = <<>> THEN <<>> ELSE Head(ss) \o Concat(Tail(ss))

\* All sequences over S of length at most n.
SeqsUpTo(S, n) == UNION {[1..k -> S] : k \in 0..n}

\* The bytes of s from Rust index i (inclusive) to j (exclusive): &s[i..j].
Slice(s, i, j) == SubSeq(s, i + 1, j)


-----------------------------------------------------------------------------
(* ASCII bytes the code names as literals. *)

CH_TAB == 9          \* b'\t'
CH_LF == 10          \* b'\n'
CH_CR == 13          \* b'\r'
CH_SPACE == 32       \* b' '
CH_QUOTE == 34       \* b'"'
CH_PLUS == 43        \* b'+'
CH_COMMA == 44       \* b','
CH_MINUS == 45       \* b'-'
CH_ZERO == 48        \* b'0'
CH_NINE == 57        \* b'9'
CH_COLON == 58       \* b':'
CH_LBRACKET == 91    \* b'['
CH_BACKSLASH == 92   \* b'\\'
CH_RBRACKET == 93    \* b']'
CH_LBRACE == 123     \* b'{'
CH_RBRACE == 125     \* b'}'

STR_true == <<116, 114, 117, 101>>          \* b"true"
STR_false == <<102, 97, 108, 115, 101>>     \* b"false"
STR_null == <<110, 117, 108, 108>>          \* b"null"

-----------------------------------------------------------------------------
(* The writer: Serializer (src/ser/mod.rs).                                *)
(*                                                                         *)
(* A serializer value is [buf, current_length, panicked]; an operation     *)
(* returns [ok, s]: Ok(()) or Err(BufferFull), and the serializer after    *)
(* it.  The q_ operators are a call followed by `?`: they pass an earlier  *)
(* error through.                                                          *)

\* Serializer::new over a caller's buffer.
Serializer_new(b) == [buf |-> b, current_length |-> 0, panicked |-> FALSE]

\* self.buf[self.current_length] = c; self.current_length += 1.  The index
\* is bounds-checked: out of bounds it panics and nothing is written.
push_unchecked(s, c) ==
    IF s.current_length < Len(s.buf)
    THEN [s EXCEPT !.buf = [s.buf EXCEPT ![s.current_length + 1] = c],
                   !.current_length = s.current_length + 1]
    ELSE [s EXCEPT !.panicked = TRUE]

push(s, c) ==
    IF s.current_length < Len(s.buf)
    THEN [ok |-> TRUE, s |-> push_unchecked(s, c)]
    ELSE [ok |-> FALSE, s |-> s]

RECURSIVE push_each(_, _)
\* for c in other { self.push_unchecked(*c) }
push_each(s, other) ==
    IF other = <<>> THEN s
    ELSE push_each(push_unchecked(s, Head(other)), Tail(other))

\* Mutant: the capacity test of slice.rs (>=), which refuses an exact fit.
extend_from_slice_exact_fit_refused(s, other) ==
    IF s.current_length + Len(other) >= Len(s.buf)
    THEN [ok |-> FALSE, s |-> s]
    ELSE [ok |-> TRUE, s |-> push_each(s, other)]

RECURSIVE push_until_full(_, _)
push_until_full(r, other) ==
    IF ~r.ok \/ other = <<>> THEN r
    ELSE push_until_full(push(r.s, Head(other)), Tail(other))

\* Mutant: the run is written byte by byte with push, so a run that does not
\* fit is written up to the capacity before the error.
extend_from_slice_partial(s, other) == push_until_full([ok |-> TRUE, s |-> s], other)

extend_from_slice(s, other) ==
    IF s.current_length + Len(other) > Len(s.buf)
    THEN [ok |-> FALSE, s |-> s]
    ELSE [ok |-> TRUE, s |-> push_each(s, other)]

q_push(r, c) == IF r.ok THEN push(r.s, c) ELSE r

q_extend_from_slice(r, other) == IF r.ok THEN extend_from_slice(r.s, other) ELSE r

serialize_bool(s, v) ==
    IF v THEN extend_from_slice(s, STR_true) ELSE extend_from_slice(s, STR_false)

serialize_none(s) == extend_from_slice(s, STR_null)

-----------------------------------------------------------------------------
(* Integer rendering: serialize_unsigned! and serialize_signed!.           *)

\* A slot of the local digit buffer that was never written (MaybeUninit).
UNINIT == -1

\* [MaybeUninit<u8>; N]
uninit_array(N) == [k \in 1..N |-> UNINIT]

\* The integer types, each with the width of its digit buffer as passed by
\* serialize_u8 .. serialize_i64.  The 32- and 64-bit instances of the same
\* macros have values beyond the integers TLC computes with.
N_u8 == 3
N_u16 == 5
N_i8 == 4
N_i16 == 6

IntTypes == {"u8", "u16", "i8", "i16"}

is_signed(ty) == ty \in {"i8", "i16"}

bits(ty) == IF ty \in {"u8", "i8"} THEN 8 ELSE 16

digits_N(ty) ==
    CASE ty = "u8" -> N_u8 [] ty = "u16" -> N_u16
      [] ty = "i8" -> N_i8 [] ty = "i16" -> N_i16

\* $ixx::min_value(), $ixx::max_value(), $uxx::max_value()
min_value(ty) == IF is_signed(ty) THEN 0 - Pow2(bits(ty) - 1) ELSE 0

max_value(ty) == IF is_signed(ty) THEN Pow2(bits(ty) - 1) - 1 ELSE Pow2(bits(ty)) - 1

RECURSIVE unsigned_loop(_, _, _)
\* loop { buf[i] = v % 10 + b'0'; v /= 10; if v == 0 { break } else { i -= 1 } }
\* Returns the buffer, the final i, and whether an index or `i -= 1` failed.
unsigned_loop(b, i, v) ==
    IF i < 0 \/ i >= Len(b) THEN [buf |-> b, i |-> i, panicked |-> TRUE]
    ELSE LET b1 == [b EXCEPT ![i + 1] = (v % 10) + CH_ZERO]
             v1 == v \div 10
         IN IF v1 = 0 THEN [buf |-> b1, i |-> i, panicked |-> FALSE]
            ELSE IF i = 0 THEN [buf |-> b1, i |-> i, panicked |-> TRUE]
            ELSE unsigned_loop(b1, i - 1, v1)

\* $self.extend_from_slice(&buf[i..]) of the digit buffer: reading a slot that
\* was never written, or a failed loop, is recorded as a panic.
extend_digits(s, d, i) ==
    IF d.panicked \/ i < 0 \/ i > Len(d.buf)
       \/ \E k \in (i + 1)..Len(d.buf) : d.buf[k] = UNINIT
    THEN [ok |-> FALSE, s |-> [s EXCEPT !.panicked = TRUE]]
    ELSE extend_from_slice(s, Slice(d.buf, i, Len(d.buf)))

serialize_unsigned(s, N, v) ==
    LET d == unsigned_loop(uninit_array(N), N - 1, v)
    IN extend_digits(s, d, d.i)

RECURSIVE signed_loop_break_first(_, _, _)
\* Mutant: the loop of serialize_unsigned!, which leaves i at the last digit
\* written.
signed_loop_break_first(b, i, v) ==
    IF i < 0 \/ i >= Len(b) THEN [buf |-> b, i |-> i, panicked |-> TRUE]
    ELSE LET b1 == [b EXCEPT ![i + 1] = (v % 10) + CH_ZERO]
             v1 == v \div 10
         IN IF v1 = 0 THEN [buf |-> b1, i |-> i, panicked |-> FALSE]
            ELSE IF i = 0 THEN [buf |-> b1, i |-> i, panicked |-> TRUE]
            ELSE signed_loop_break_first(b1, i - 1, v1)

RECURSIVE signed_loop(_, _, _)
\* loop { buf[i] = v % 10 + b'0'; v /= 10; i -= 1; if v == 0 { break } }
signed_loop(b, i, v) ==
    IF i < 0 \/ i >= Len(b) THEN [buf |-> b, i |-> i, panicked |-> TRUE]
    ELSE LET b1 == [b EXCEPT ![i + 1] = (v % 10) + CH_ZERO]
             v1 == v \div 10
         IN IF i = 0 THEN [buf |-> b1, i |-> i, panicked |-> TRUE]
            ELSE IF v1 = 0 THEN [buf |-> b1, i |-> i - 1, panicked |-> FALSE]
            ELSE signed_loop(b1, i - 1, v1)

\* Mutant: the magnitude of the minimum value saturates at the maximum value.
signed_magnitude_saturating(ty, v) ==
    IF v = min_value(ty) THEN max_value(ty)
    ELSE IF v < 0 THEN (0 - v) % Pow2(bits(ty))
    ELSE v % Pow2(bits(ty))

\* The magnitude as $uxx: the casts wrap at the type's width.
signed_magnitude(ty, v) ==
    IF v = min_value(ty) THEN (max_value(ty) + 1) % Pow2(bits(ty))
    ELSE IF v < 0 THEN (0 - v) % Pow2(bits(ty))
    ELSE v % Pow2(bits(ty))

serialize_signed(s, N, v, ty) ==
    LET signed == v = min_value(ty) \/ v < 0
        d == signed_loop(uninit_array(N), N - 1, signed_magnitude(ty, v))
    IN IF d.panicked THEN extend_digits(s, d, d.i)
       ELSE IF signed
            THEN extend_digits(s, [d EXCEPT !.buf[d.i + 1] = CH_MINUS], d.i)
            ELSE extend_digits(s, d, d.i + 1)

\* serialize_i8 .. serialize_u64
serialize_int(s, ty, v) ==
    IF is_signed(ty) THEN serialize_signed(s, digits_N(ty), v, ty)
    ELSE serialize_unsigned(s, digits_N(ty), v)

-----------------------------------------------------------------------------
(* String rendering: serialize_str.  A character is its code point.        *)

\* Mutant: lower-case hex digits.
hex_4bit_lower(c) == IF c <= 9 THEN 48 + c ELSE 97 + (c - 10)

hex_4bit(c) == IF c <= 9 THEN 48 + c ELSE 65 + (c - 10)

\* (hex_4bit(c >> 4), hex_4bit(c & 0x0F))
hex(c) == <<hex_4bit(c \div 16), hex_4bit(c % 16)>>

\* char::encode_utf8
encode_utf8(c) ==
    IF c < 128 THEN <<c>>
    ELSE IF c < 2048 THEN <<192 + (c \div 64), 128 + (c % 64)>>
    ELSE IF c < 65536
         THEN <<224 + (c \div 4096), 128 + ((c \div 64) % 64), 128 + (c % 64)>>
    ELSE <<240 + (c \div 262144), 128 + ((c \div 4096) % 64),
           128 + ((c \div 64) % 64), 128 + (c % 64)>>

\* One arm of `match c` in serialize_str, after an earlier result r.
serialize_char(r, c) ==
    CASE c = 92 -> q_push(q_push(r, CH_BACKSLASH), CH_BACKSLASH)
      [] c = 34 -> q_push(q_push(r, CH_BACKSLASH), CH_QUOTE)
      [] c = 8 -> q_push(q_push(r, CH_BACKSLASH), 98)
      [] c = 9 -> q_push(q_push(r, CH_BACKSLASH), 116)
      [] c = 10 -> q_push(q_push(r, CH_BACKSLASH), 110)
      [] c = 12 -> q_push(q_push(r, CH_BACKSLASH), 102)
      [] c = 13 -> q_push(q_push(r, CH_BACKSLASH), 114)
      [] c \in 0..31 /\ c \notin {8, 9, 10, 12, 13} ->
            LET h == hex(c % 256)
            IN q_push(q_push(q_push(q_push(q_push(q_push(r,
                   CH_BACKSLASH), 117), CH_ZERO), CH_ZERO), h[1]), h[2])
      [] OTHER -> q_extend_from_slice(r, encode_utf8(c))

RECURSIVE serialize_chars(_, _)
\* for c in v.chars() { match c { ... } }
serialize_chars(r, v) ==
    IF v = <<>> THEN r
    ELSE serialize_chars(serialize_char(r, Head(v)), Tail(v))

serialize_str(s, v) ==
    q_push(serialize_chars(push(s, CH_QUOTE), v), CH_QUOTE)

-----------------------------------------------------------------------------
(* Values handed to the writer, and serde's dispatch on their type.        *)
(* A value is [t, v]: t names the Rust type, v is the payload (a bool, an  *)
(* integer, a sequence of code points, a sequence of values).              *)

VBool(b) == [t |-> "bool", v |-> b]
VInt(ty, n) == [t |-> ty, v |-> n]
VStr(cs) == [t |-> "str", v |-> cs]
VNone == [t |-> "none", v |-> <<>>]
VSeq(es) == [t |-> "seq", v |-> es]
\* A struct: its fields <<key, value>> in order, a key being its bytes.
VStruct(fields) == [t |-> "struct", v |-> fields]
\* A map: its entries <<key, value>> in iteration order, a key being a value.
VMap(entries) == [t |-> "map", v |-> entries]
\* Enum values, by the form of their variant; a variant is named by its bytes.
VUnitVariant(variant) == [t |-> "unit_variant", v |-> variant]
VNewtypeVariant(variant, value) == [t |-> "newtype_variant", v |-> <<variant, value>>]
VStructVariant(variant, fields) == [t |-> "struct_variant", v |-> <<variant, fields>>]

RECURSIVE Serialize(_, _)
RECURSIVE serialize_elements(_, _, _)

\* SerializeSeq::serialize_element for each element in turn, `first` being
\* the builder's flag; an error returns at once.
serialize_elements(r, first, es) ==
    IF ~r.ok \/ es = <<>> THEN r
    ELSE LET r1 == IF ~first THEN push(r.s, CH_COMMA) ELSE r
             r2 == IF r1.ok THEN Serialize(r1.s, Head(es)) ELSE r1
         IN serialize_elements(r2, FALSE, Tail(es))

\* serialize_seq, the elements, SerializeSeq::end
serialize_seq(s, es) ==
    q_push(serialize_elements(push(s, CH_LBRACKET), TRUE, es), CH_RBRACKET)

\* A builder is [r, first]: the result of the writes so far (its serializer
\* in r.s) and the builder's `first` flag.  SerializeSeq::new,
\* SerializeMap::new, SerializeStruct::new and SerializeStructVariant::new.
Builder_new(r) == [r |-> r, first |-> TRUE]

\* The `,` in front of every child but the first.
separator(b) == IF ~b.first THEN q_push(b.r, CH_COMMA) ELSE b.r

\* value.serialize(&mut *self.ser)? behind the writes of r
q_Serialize(r, value) == IF r.ok THEN Serialize(r.s, value) ELSE r

\* SerializeSeq::serialize_element
serialize_element(b, value) ==
    [r |-> q_Serialize(separator(b), value), first |-> FALSE]

\* SerializeStruct::serialize_field and SerializeStructVariant::serialize_field
serialize_field(b, key, value) ==
    [r |-> q_Serialize(
               q_extend_from_slice(
                   q_extend_from_slice(q_push(separator(b), CH_QUOTE), key),
                   <<CH_QUOTE, CH_COLON>>),
               value),
     first |-> FALSE]

\* SerializeMap::serialize_key
serialize_key(b, key) ==
    [r |-> q_extend_from_slice(q_Serialize(separator(b), key), <<CH_COLON>>),
     first |-> FALSE]

\* SerializeMap::serialize_value
serialize_value(b, value) == [r |-> q_Serialize(b.r, value), first |-> b.first]

SerializeSeq_end(b) == q_push(b.r, CH_RBRACKET)

\* SerializeStruct::end; SerializeMap::end is the same
SerializeStruct_end(b) == q_push(b.r, CH_RBRACE)

SerializeStructVariant_end(b) == q_extend_from_slice(b.r, <<CH_RBRACE, CH_RBRACE>>)

RECURSIVE serialize_fields(_, _)
\* The derived Serialize of a struct: serialize_field(key, value)? per field.
serialize_fields(b, fields) ==
    IF ~b.r.ok \/ fields = <<>> THEN b
    ELSE serialize_fields(serialize_field(b, Head(fields)[1], Head(fields)[2]), Tail(fields))

RECURSIVE serialize_entries(_, _)
\* Serialize of a map: serialize_key(k)? and serialize_value(v)? per entry.
serialize_entries(b, entries) ==
    IF ~b.r.ok \/ entries = <<>> THEN b
    ELSE LET k == serialize_key(b, Head(entries)[1])
         IN serialize_entries(IF k.r.ok THEN serialize_value(k, Head(entries)[2]) ELSE k,
                              Tail(entries))

\* serialize_struct, serialize_map: the opening brace and the builder
serialize_struct(s) == Builder_new(push(s, CH_LBRACE))

serialize_unit_variant(s, variant) == serialize_str(s, variant)

serialize_newtype_variant(s, variant, value) ==
    LET opened == push(s, CH_LBRACE)
        field == serialize_field(Builder_new(opened), variant, value)
    IN IF ~opened.ok THEN opened
       ELSE IF ~field.r.ok THEN field.r
       ELSE SerializeStruct_end(field)

serialize_struct_variant(s, variant) ==
    Builder_new(q_extend_from_slice(
                    q_extend_from_slice(
                        extend_from_slice(s, <<CH_LBRACE, CH_QUOTE>>), variant),
                    <<CH_QUOTE, CH_COLON, CH_LBRACE>>))

\* value.serialize(&mut ser): the Serializer method serde calls for the type.
Serialize(s, val) ==
    CASE val.t = "bool" -> serialize_bool(s, val.v)
      [] val.t \in IntTypes -> serialize_int(s, val.t, val.v)
      [] val.t = "str" -> serialize_str(s, val.v)
      [] val.t = "none" -> serialize_none(s)
      [] val.t = "seq" -> serialize_seq(s, val.v)
      [] val.t = "struct" ->
            LET b == serialize_fields(serialize_struct(s), val.v)
            IN IF b.r.ok THEN SerializeStruct_end(b) ELSE b.r
      [] val.t = "map" ->
            LET b == serialize_entries(serialize_struct(s), val.v)
            IN IF b.r.ok THEN SerializeStruct_end(b) ELSE b.r
      [] val.t = "unit_variant" -> serialize_unit_variant(s, val.v)
      [] val.t = "newtype_variant" -> serialize_newtype_variant(s, val.v[1], val.v[2])
      [] val.t = "struct_variant" ->
            LET b == serialize_fields(serialize_struct_variant(s, val.v[1]), val.v[2])
            IN IF b.r.ok THEN SerializeStructVariant_end(b) ELSE b.r

\* to_slice(value, buf): [tag, n, s] with tag Ok (n bytes written),
\* BufferFull, or panic.
to_slice(value, b) ==
    LET r == Serialize(Serializer_new(b), value)
    IN [tag |-> IF r.s.panicked THEN "panic" ELSE IF r.ok THEN "Ok" ELSE "BufferFull",
        n |-> IF r.ok THEN r.s.current_length ELSE 0,
        s |-> r.s]

-----------------------------------------------------------------------------
(* The writer as a state machine.                                          *)

\* A caller's buffer of the given capacity.
zeroed(cap) == [k \in 1..cap |-> 0]

\* Largest capacity of a buffer driven by the raw sink operations.
MaxSinkCap == 6

\* The bytes the raw sink operations write.
SinkBytes == {97, 98}

\* Characters of the strings rendered: the escaped ones, control characters
\* with and without a short form, ASCII, DEL, and 2-, 3- and 4-byte characters.
Chars == {0, 8, 9, 10, 12, 13, 31, 34, 92, 97, 127, 233, 8364, 128079}

Ints(ty) ==
    IF bits(ty) = 8 THEN min_value(ty)..max_value(ty)
    ELSE {n \in {0 - 32768, 0 - 32767, 0 - 10000, 0 - 9999, 0 - 1000, 0 - 256,
                 0 - 100, 0 - 10, 0 - 1, 0, 1, 9, 10, 99, 100, 255, 256, 999,
                 1000, 9999, 10000, 32767, 32768, 65534, 65535} :
             min_value(ty) <= n /\ n <= max_value(ty)}

\* The elements of the sequences rendered, by position.
Elements ==
    <<VBool(TRUE), VInt("u8", 7), VInt("i8", 0 - 1), VStr(<<97>>), VNone, VSeq(<<>>)>>

\* The sequence value whose elements are the Elements at the positions ks.
seq_of(ks) == VSeq([i \in 1..Len(ks) |-> Elements[ks[i]]])

\* Longest sequence value rendered.
MaxSeqLen == 2

\* from_slice has not been called.
NoResult == [tag |-> "", value |-> <<>>, n |-> 0]

\* No escaped string has been wrapped.
StrIdle ==
    /\ span = <<>>
    /\ remaining = <<>>
    /\ fragments = <<>>

\* No container builder is held.
BuilderIdle ==
    /\ builder = [kind |-> "none", first |-> TRUE]
    /\ children = <<>>

\* No variant access has been handed out.
AccessIdle == access = [op |-> "none", index |-> 0, T |-> ""]

\* No other sink has been constructed.
SinksIdle ==
    sinks = [backend |-> [buf |-> <<>>, current_length |-> 0, panicked |-> FALSE],
             backend_ok |-> TRUE,
             slice |-> [buf |-> <<>>, index |-> 0],
             slice_ok |-> TRUE]

SerInit ==
    /\ StrIdle
    /\ BuilderIdle
    /\ AccessIdle
    /\ SinksIdle
    /\ \E cap \in 0..MaxCap : buf = zeroed(cap)
    /\ current_length = 0
    /\ panicked = FALSE
    /\ op = [name |-> "new", arg |-> <<>>]
    /\ ret = [tag |-> "Ok", n |-> 0]
    /\ input = <<>>
    /\ target = ""
    /\ result = NoResult
    /\ pc = "writing"

\* Whether the serializer of the state is one the caller drives directly,
\* within the capacity the raw sink operations are explored for.
sink_live ==
    /\ op.name \in {"new", "push", "extend_from_slice"}
    /\ Len(buf) <= MaxSinkCap

\* Serializer::new(buf) over a caller's buffer of capacity cap.
New(cap) ==
    /\ buf' = zeroed(cap)
    /\ current_length' = 0
    /\ panicked' = FALSE
    /\ op' = [name |-> "new", arg |-> <<>>]
    /\ ret' = [tag |-> "Ok", n |-> 0]
    /\ UNCHANGED <<de_vars, ext_vars>>

ser_state == [buf |-> buf, current_length |-> current_length, panicked |-> panicked]

\* The state after an operation that returned r.
ser_return(r) ==
    /\ buf' = r.s.buf
    /\ current_length' = r.s.current_length
    /\ panicked' = r.s.panicked
    /\ ret' = [tag |-> IF r.s.panicked THEN "panic" ELSE IF r.ok THEN "Ok" ELSE "BufferFull",
               n |-> 0]

Push(c) ==
    /\ sink_live /\ ~panicked
    /\ op' = [name |-> "push", arg |-> <<c>>]
    /\ ser_return(push(ser_state, c))
    /\ UNCHANGED <<de_vars, ext_vars>>

ExtendFromSlice(other) ==
    /\ sink_live /\ ~panicked
    /\ op' = [name |-> "extend_from_slice", arg |-> other]
    /\ ser_return(extend_from_slice(ser_state, other))
    /\ UNCHANGED <<de_vars, ext_vars>>

\* to_slice(value, buf) on the caller's fresh buffer.
ToSlice(value) ==
    LET r == to_slice(value, buf)
    IN /\ op.name = "new"
       /\ op' = [name |-> "to_slice", arg |-> value]
       /\ buf' = r.s.buf
       /\ current_length' = r.s.current_length
       /\ panicked' = r.s.panicked
       /\ ret' = [tag |-> r.tag, n |-> r.n]
       /\ UNCHANGED <<de_vars, ext_vars>>

\* to_slice of a value of each type the writer is handed.
ToSliceBool(b) ==
    /\ pc = "writing"
    /\ ToSlice(VBool(b))

ToSliceInt(ty, n) ==
    /\ pc = "writing"
    /\ ToSlice(VInt(ty, n))

ToSliceStr(cs) ==
    /\ pc = "writing"
    /\ ToSlice(VStr(cs))

ToSliceNone ==
    /\ pc = "writing"
    /\ ToSlice(VNone)

ToSliceSeq(ks) ==
    /\ pc = "writing"
    /\ ToSlice(seq_of(ks))

SerNext ==
    \/ \E cap \in 0..MaxCap : New(cap)
    \/ \E c \in SinkBytes : Push(c)
    \/ \E other \in SeqsUpTo(SinkBytes, MaxRun) : ExtendFromSlice(other)
    \/ \E b \in BOOLEAN : ToSliceBool(b)
    \/ \E ty \in IntTypes : \E n \in Ints(ty) : ToSliceInt(ty, n)
    \/ \E cs \in SeqsUpTo(Chars, MaxStrLen) : ToSliceStr(cs)
    \/ ToSliceNone
    \/ \E ks \in SeqsUpTo(1..Len(Elements), MaxSeqLen) : ToSliceSeq(ks)

SpecSer == SerInit /\ [][SerNext]_vars

-----------------------------------------------------------------------------
(* The reader: Deserializer (src/de/mod.rs).                               *)
(*                                                                         *)
(* A deserializer value is [slice, index].  An operation returns           *)
(* [ok, err, v, de]: Ok(v) or Err(err), and the deserializer after it.     *)

\* Option::None of a peeked byte.
NONE == -1

Deserializer_new(v) == [slice |-> v, index |-> 0]

DeOk(v, de) == [ok |-> TRUE, err |-> "", v |-> v, de |-> de]

DeErr(e, de) == [ok |-> FALSE, err |-> e, v |-> <<>>, de |-> de]

\* self.slice.get(self.index).cloned()
peek(de) == IF de.index < Len(de.slice) THEN de.slice[de.index + 1] ELSE NONE

eat_char(de) == [de EXCEPT !.index = de.index + 1]

\* Mutant: next_char advances the cursor even when no byte is left.
next_char_always_advances(de) ==
    [ch |-> peek(de), de |-> [de EXCEPT !.index = de.index + 1]]

\* next_char: [ch, de]
next_char(de) ==
    LET ch == peek(de)
    IN [ch |-> ch, de |-> IF ch # NONE THEN [de EXCEPT !.index = de.index + 1] ELSE de]

\* Mutant: carriage return is not skipped as whitespace.
is_whitespace_no_cr(c) == c \in {CH_SPACE, CH_LF, CH_TAB}

\* Some(b' ') | Some(b'\n') | Some(b'\t') | Some(b'\r')
is_whitespace(c) == c \in {CH_SPACE, CH_LF, CH_TAB, CH_CR}

RECURSIVE parse_whitespace(_)
\* parse_whitespace: [peek, de]
parse_whitespace(de) ==
    LET c == peek(de)
    IN IF is_whitespace(c) THEN parse_whitespace(eat_char(de))
       ELSE [peek |-> c, de |-> de]

\* Mutant: end() reports the cursor without looking at what remains.
end_unchecked(de) == DeOk(de.index, de)

\* Mutant: end() reports the cursor as it was before the trailing whitespace.
end_before_whitespace(de) ==
    LET w == parse_whitespace(de)
    IN IF w.peek # NONE THEN DeErr("TrailingCharacters", w.de)
       ELSE DeOk(de.index, w.de)

\* Deserializer::end
end(de) ==
    LET w == parse_whitespace(de)
    IN IF w.peek # NONE THEN DeErr("TrailingCharacters", w.de)
       ELSE DeOk(w.de.index, w.de)

\* Mutant: a comma before the closing bracket is accepted.
end_seq_lenient(de) ==
    LET w == parse_whitespace(de)
    IN IF w.peek = NONE THEN DeErr("EofWhileParsingList", w.de)
       ELSE IF w.peek = CH_RBRACKET THEN DeOk(<<>>, eat_char(w.de))
       ELSE IF w.peek = CH_COMMA
            THEN LET w2 == parse_whitespace(eat_char(w.de))
                 IN IF w2.peek = CH_RBRACKET THEN DeOk(<<>>, eat_char(w2.de))
                    ELSE DeErr("TrailingCharacters", w2.de)
       ELSE DeErr("TrailingCharacters", w.de)

\* Mutant: a byte that is neither `,` nor `]` is reported as a malformed list.
end_seq_expected_comma_or_end(de) ==
    LET w == parse_whitespace(de)
    IN IF w.peek = NONE THEN DeErr("EofWhileParsingList", w.de)
       ELSE IF w.peek = CH_RBRACKET THEN DeOk(<<>>, eat_char(w.de))
       ELSE IF w.peek = CH_COMMA
            THEN LET w2 == parse_whitespace(eat_char(w.de))
                 IN IF w2.peek = CH_RBRACKET THEN DeErr("TrailingComma", w2.de)
                    ELSE DeErr("TrailingCharacters", w2.de)
       ELSE DeErr("ExpectedListCommaOrEnd", w.de)

\* Deserializer::end_seq
end_seq(de) ==
    LET w == parse_whitespace(de)
    IN IF w.peek = NONE THEN DeErr("EofWhileParsingList", w.de)
       ELSE IF w.peek = CH_RBRACKET THEN DeOk(<<>>, eat_char(w.de))
       ELSE IF w.peek = CH_COMMA
            THEN LET w2 == parse_whitespace(eat_char(w.de))
                 IN IF w2.peek = CH_RBRACKET THEN DeErr("TrailingComma", w2.de)
                    ELSE DeErr("TrailingCharacters", w2.de)
       ELSE DeErr("TrailingCharacters", w.de)

RECURSIVE parse_ident(_, _)
\* for c in ident { if Some(*c) != self.next_char() { return Err(ExpectedSomeIdent) } }
parse_ident(de, ident) ==
    IF ident = <<>> THEN DeOk(<<>>, de)
    ELSE LET n == next_char(de)
         IN IF n.ch # Head(ident) THEN DeErr("ExpectedSomeIdent", n.de)
            ELSE parse_ident(n.de, Tail(ident))

RECURSIVE leading_backslashes_through_quotes(_, _, _)
\* Mutant: a quote does not stop the count.
leading_backslashes_through_quotes(slice, index, count) ==
    IF index - count - 1 < 0 \/ index - count - 1 >= Len(slice) THEN NONE
    ELSE IF slice[(index - count - 1) + 1] \in {CH_BACKSLASH, CH_QUOTE}
         THEN leading_backslashes_through_quotes(slice, index, count + 1)
         ELSE count

RECURSIVE leading_backslashes(_, _, _)
\* The closure of parse_str: the number of backslashes in front of index, or
\* NONE when self.slice[index - count - 1] is out of bounds (a panic).
leading_backslashes(slice, index, count) ==
    IF index - count - 1 < 0 \/ index - count - 1 >= Len(slice) THEN NONE
    ELSE IF slice[(index - count - 1) + 1] = CH_BACKSLASH
         THEN leading_backslashes(slice, index, count + 1)
         ELSE count

\* A continuation byte, 0x80..0xBF.
utf8_cont(b) == 128 <= b /\ b <= 191

RECURSIVE from_utf8_ok(_)
\* Whether core::str::from_utf8 accepts the bytes.
from_utf8_ok(bs) ==
    IF bs = <<>> THEN TRUE
    ELSE LET b == bs[1]
             n == Len(bs)
         IN IF b < 128 THEN from_utf8_ok(Tail(bs))
            ELSE IF 194 <= b /\ b <= 223
                 THEN n >= 2 /\ utf8_cont(bs[2]) /\ from_utf8_ok(SubSeq(bs, 3, n))
            ELSE IF 224 <= b /\ b <= 239
                 THEN /\ n >= 3
                      /\ IF b = 224 THEN 160 <= bs[2] /\ bs[2] <= 191
                         ELSE IF b = 237 THEN 128 <= bs[2] /\ bs[2] <= 159
                         ELSE utf8_cont(bs[2])
                      /\ utf8_cont(bs[3])
                      /\ from_utf8_ok(SubSeq(bs, 4, n))
            ELSE IF 240 <= b /\ b <= 244
                 THEN /\ n >= 4
                      /\ IF b = 240 THEN 144 <= bs[2] /\ bs[2] <= 191
                         ELSE IF b = 244 THEN 128 <= bs[2] /\ bs[2] <= 143
                         ELSE utf8_cont(bs[2])
                      /\ utf8_cont(bs[3])
                      /\ utf8_cont(bs[4])
                      /\ from_utf8_ok(SubSeq(bs, 5, n))
            ELSE FALSE

\* Mutant: a quote is escaped whenever a backslash precedes it.
is_escaped_any_backslash(slice, index) == leading_backslashes(slice, index, 0) >= 1

\* leading_backslashes(self.index) % 2 == 1
is_escaped(slice, index) == leading_backslashes(slice, index, 0) % 2 = 1

RECURSIVE parse_str_loop(_, _)
parse_str_loop(de, start) ==
    LET c == peek(de)
    IN IF c = NONE THEN DeErr("EofWhileParsingString", de)
       ELSE IF c = CH_QUOTE
            THEN IF leading_backslashes(de.slice, de.index, 0) = NONE
                 THEN DeErr("panic", de)
                 ELSE IF is_escaped(de.slice, de.index)
                      THEN parse_str_loop(eat_char(de), start)
                      ELSE LET s == Slice(de.slice, start, de.index)
                           IN IF from_utf8_ok(s) THEN DeOk(s, eat_char(de))
                              ELSE DeErr("InvalidUnicodeCodePoint", eat_char(de))
       ELSE parse_str_loop(eat_char(de), start)

\* Deserializer::parse_str
parse_str(de) == parse_str_loop(de, de.index)

-----------------------------------------------------------------------------
(* The typed productions.  A target type is named by a string.             *)

is_digit(c) == CH_ZERO <= c /\ c <= CH_NINE

\* The value of the integer type ty that x wraps to.
wrapping(x, ty) ==
    LET w == Pow2(bits(ty))
        y == x % w
    IN IF is_signed(ty) /\ y >= w \div 2 THEN y - w ELSE y

\* Mutant: the multiplication wraps at the type's width instead of failing.
wrapping_mul(x, y, ty) == [some |-> TRUE, v |-> wrapping(x * y, ty)]

\* $uxx::checked_mul / $ixx::checked_mul: [some, v]
checked_mul(x, y, ty) ==
    IF x * y < min_value(ty) \/ x * y > max_value(ty)
    THEN [some |-> FALSE, v |-> 0]
    ELSE [some |-> TRUE, v |-> x * y]

\* $uxx::checked_add / $ixx::checked_add: [some, v]
checked_add(x, y, ty) ==
    IF x + y < min_value(ty) \/ x + y > max_value(ty)
    THEN [some |-> FALSE, v |-> 0]
    ELSE [some |-> TRUE, v |-> x + y]

RECURSIVE accumulate_digits(_, _, _, _)
\* The digit loop of deserialize_unsigned! / deserialize_signed!; sign is 1
\* or -1, the factor each digit is multiplied by.
accumulate_digits(de, number, sign, ty) ==
    LET c == peek(de)
    IN IF c # NONE /\ is_digit(c)
       THEN LET m == checked_mul(number, 10, ty)
                a == checked_add(m.v, (c - CH_ZERO) * sign, ty)
            IN IF ~m.some THEN DeErr("InvalidNumber", eat_char(de))
               ELSE IF ~a.some THEN DeErr("InvalidNumber", eat_char(de))
               ELSE accumulate_digits(eat_char(de), a.v, sign, ty)
       ELSE DeOk(number, de)

\* Mutant: a leading `0` starts a number like any other digit.
deserialize_unsigned_zero_led(de, ty) ==
    LET w == parse_whitespace(de)
    IN IF w.peek = NONE THEN DeErr("EofWhileParsingValue", w.de)
       ELSE IF w.peek = CH_MINUS THEN DeErr("InvalidNumber", w.de)
       ELSE IF is_digit(w.peek)
            THEN accumulate_digits(eat_char(w.de), w.peek - CH_ZERO, 1, ty)
       ELSE DeErr("InvalidType", w.de)

deserialize_unsigned(de, ty) ==
    LET w == parse_whitespace(de)
    IN IF w.peek = NONE THEN DeErr("EofWhileParsingValue", w.de)
       ELSE IF w.peek = CH_MINUS THEN DeErr("InvalidNumber", w.de)
       ELSE IF w.peek = CH_ZERO THEN DeOk(0, eat_char(w.de))
       ELSE IF is_digit(w.peek)
            THEN accumulate_digits(eat_char(w.de), w.peek - CH_ZERO, 1, ty)
       ELSE DeErr("InvalidType", w.de)

\* Mutant: the magnitude is accumulated as a positive number of the type and
\* negated once at the end.
deserialize_signed_negate_last(de, ty) ==
    LET w == parse_whitespace(de)
    IN IF w.peek = NONE THEN DeErr("EofWhileParsingValue", w.de)
       ELSE LET signed == w.peek = CH_MINUS
                d1 == IF signed THEN eat_char(w.de) ELSE w.de
                c == peek(d1)
            IN IF c = NONE THEN DeErr("EofWhileParsingValue", d1)
               ELSE IF c = CH_ZERO THEN DeOk(0, eat_char(d1))
               ELSE IF is_digit(c)
                    THEN LET r == accumulate_digits(eat_char(d1), c - CH_ZERO, 1, ty)
                         IN IF r.ok /\ signed THEN DeOk(0 - r.v, r.de) ELSE r
               ELSE DeErr("InvalidType", d1)

deserialize_signed(de, ty) ==
    LET w == parse_whitespace(de)
    IN IF w.peek = NONE THEN DeErr("EofWhileParsingValue", w.de)
       ELSE LET signed == w.peek = CH_MINUS
                d1 == IF signed THEN eat_char(w.de) ELSE w.de
                c == peek(d1)
                sign == IF signed THEN 0 - 1 ELSE 1
            IN IF c = NONE THEN DeErr("EofWhileParsingValue", d1)
               ELSE IF c = CH_ZERO THEN DeOk(0, eat_char(d1))
               ELSE IF is_digit(c)
                    THEN accumulate_digits(eat_char(d1), (c - CH_ZERO) * sign, sign, ty)
               ELSE DeErr("InvalidType", d1)

deserialize_bool(de) ==
    LET w == parse_whitespace(de)
    IN IF w.peek = NONE THEN DeErr("EofWhileParsingValue", w.de)
       ELSE IF w.peek = Head(STR_true)
            THEN LET r == parse_ident(eat_char(w.de), Tail(STR_true))
                 IN IF r.ok THEN DeOk(TRUE, r.de) ELSE r
       ELSE IF w.peek = Head(STR_false)
            THEN LET r == parse_ident(eat_char(w.de), Tail(STR_false))
                 IN IF r.ok THEN DeOk(FALSE, r.de) ELSE r
       ELSE DeErr("InvalidType", w.de)

deserialize_str(de) ==
    LET w == parse_whitespace(de)
    IN IF w.peek = NONE THEN DeErr("EofWhileParsingValue", w.de)
       ELSE IF w.peek = CH_QUOTE THEN parse_str(eat_char(w.de))
       ELSE DeErr("InvalidType", w.de)

\* The target types of the model: scalars, fixed arrays [u8; n] (serde's
\* array visitor takes exactly n elements) and a vector of u8 of capacity 2
\* (its visitor takes elements until the access object reports the end).
ScalarTargets == {"bool", "u8", "u16", "i8", "i16", "str"}

ArrayTargets == {"[u8;0]", "[u8;1]", "[u8;2]", "[u8;3]"}

VecTargets == {"Vec<u8,2>"}

\* The length of an array target, the capacity of a vector target.
target_len(T) ==
    CASE T = "[u8;0]" -> 0 [] T = "[u8;1]" -> 1 [] T = "[u8;2]" -> 2
      [] T = "[u8;3]" -> 3 [] T = "Vec<u8,2>" -> 2

\* The element type of a sequence target.
target_elem(T) == "u8"

RECURSIVE deserialize(_, _)

\* What an access object answers: [ok, err, some, v, de, first].
AccessErr(e, de, first) ==
    [ok |-> FALSE, err |-> e, some |-> FALSE, v |-> <<>>, de |-> de, first |-> first]

AccessNone(de, first) ==
    [ok |-> TRUE, err |-> "", some |-> FALSE, v |-> <<>>, de |-> de, first |-> first]

AccessSome(r, first) ==
    [ok |-> r.ok, err |-> r.err, some |-> r.ok, v |-> r.v, de |-> r.de, first |-> first]

\* The element where it starts: `]` here is behind a comma.
next_element_at(de, first, elemT) ==
    IF peek(de) = CH_RBRACKET THEN AccessErr("TrailingComma", de, first)
    ELSE AccessSome(deserialize(de, elemT), first)

\* SeqAccess::next_element_seed on the access object [de, first]:
\* [ok, err, some, v, de, first].
next_element_seed(acc, elemT) ==
    LET w == parse_whitespace(acc.de)
        w2 == parse_whitespace(eat_char(w.de))
    IN IF w.peek = NONE THEN AccessErr("EofWhileParsingList", w.de, acc.first)
       ELSE IF w.peek = CH_RBRACKET THEN AccessNone(w.de, acc.first)
       ELSE IF w.peek = CH_COMMA
            THEN IF w2.peek = NONE THEN AccessErr("EofWhileParsingValue", w2.de, acc.first)
                 ELSE next_element_at(w2.de, acc.first, elemT)
       ELSE IF acc.first THEN next_element_at(w.de, FALSE, elemT)
       ELSE AccessErr("ExpectedListCommaOrEnd", w.de, acc.first)

RECURSIVE visit_seq_array(_, _, _, _)

\* The visitor of [T; n] behind next_element: a missing element is
\* invalid_length, a custom error.
visit_seq_array_element(r, n, elemT, got) ==
    IF ~r.ok THEN DeErr(r.err, r.de)
    ELSE IF ~r.some THEN DeErr("CustomError", r.de)
    ELSE visit_seq_array([de |-> r.de, first |-> r.first], n, elemT, Append(got, r.v))

\* serde's visitor of [T; n]: n calls of next_element.
visit_seq_array(acc, n, elemT, got) ==
    IF Len(got) = n THEN DeOk(got, acc.de)
    ELSE visit_seq_array_element(next_element_seed(acc, elemT), n, elemT, got)

RECURSIVE visit_seq_vec(_, _, _, _)

\* The visitor of a vector behind next_element: an element beyond the
\* capacity is invalid_length, a custom error.
visit_seq_vec_element(r, cap, elemT, got) ==
    IF ~r.ok THEN DeErr(r.err, r.de)
    ELSE IF ~r.some THEN DeOk(got, r.de)
    ELSE IF Len(got) = cap THEN DeErr("CustomError", r.de)
    ELSE visit_seq_vec([de |-> r.de, first |-> r.first], cap, elemT, Append(got, r.v))

\* The visitor of a vector of capacity cap: next_element until None.
visit_seq_vec(acc, cap, elemT, got) ==
    visit_seq_vec_element(next_element_seed(acc, elemT), cap, elemT, got)

RECURSIVE visit_seq_ignored(_)

\* The visitor of IgnoredAny behind next_element::<IgnoredAny>(): the next
\* one until None.
visit_seq_ignored_element(r) ==
    IF ~r.ok THEN DeErr(r.err, r.de)
    ELSE IF ~r.some THEN DeOk(<<>>, r.de)
    ELSE visit_seq_ignored([de |-> r.de, first |-> r.first])

\* The visitor of IgnoredAny over a sequence.
visit_seq_ignored(acc) == visit_seq_ignored_element(next_element_seed(acc, "IgnoredAny"))

\* The value v of a visitor, behind what followed it.
behind(v, e) == IF e.ok THEN DeOk(v, e.de) ELSE e

\* end_seq behind the visitor's result.
deserialize_seq_end(r) == IF ~r.ok THEN r ELSE behind(r.v, end_seq(r.de))

\* deserialize_seq / deserialize_tuple with the visitor of target T.
deserialize_seq(de, T) ==
    LET w == parse_whitespace(de)
        acc == [de |-> eat_char(w.de), first |-> TRUE]
    IN IF w.peek = NONE THEN DeErr("EofWhileParsingValue", w.de)
       ELSE IF w.peek = CH_LBRACKET
            THEN deserialize_seq_end(
                     IF T = "IgnoredAny" THEN visit_seq_ignored(acc)
                     ELSE IF T \in ArrayTargets
                     THEN visit_seq_array(acc, target_len(T), target_elem(T), <<>>)
                     ELSE visit_seq_vec(acc, target_len(T), target_elem(T), <<>>))
       ELSE DeErr("InvalidType", w.de)

\* The struct and enum types decoded, as their derived Deserialize sees
\* them: the fields <<name, type>> of a struct, the variants of an enum.
StructTargets == {"Temperature", "A{x,y}"}

EnumTargets == {"enum A(u16)", "enum A{x,y}", "enum E"}

fields(T) ==
    CASE T = "Temperature" ->
            << <<(<<116, 101, 109, 112, 101, 114, 97, 116, 117, 114, 101>>), "u8">> >>
      [] T = "A{x,y}" -> << <<(<<120>>), "u16">>, <<(<<121>>), "u16">> >>
      [] T = "IgnoredAny" -> <<>>

variants(T) ==
    CASE T = "enum A(u16)" -> <<[name |-> <<65>>, form |-> "newtype", payload |-> "u16"]>>
      [] T = "enum A{x,y}" -> <<[name |-> <<65>>, form |-> "struct", payload |-> "A{x,y}"]>>
      [] T = "enum E" ->
            <<[name |-> <<84, 104, 105, 110, 103>>, form |-> "unit", payload |-> ""],
              [name |-> <<84>>, form |-> "tuple", payload |-> "[u8;2]"]>>

\* The derived identifier visitor: the position of the name among the names
\* known, 0 for any other.
visit_str(names, s) ==
    IF \E i \in 1..Len(names) : names[i] = s
    THEN CHOOSE i \in 1..Len(names) : names[i] = s
    ELSE 0

parse_object_colon(de) ==
    LET w == parse_whitespace(de)
    IN IF w.peek = NONE THEN DeErr("EofWhileParsingObject", w.de)
       ELSE IF w.peek = CH_COLON THEN DeOk(<<>>, eat_char(w.de))
       ELSE DeErr("ExpectedColon", w.de)

end_map(de) ==
    LET w == parse_whitespace(de)
    IN IF w.peek = NONE THEN DeErr("EofWhileParsingObject", w.de)
       ELSE IF w.peek = CH_RBRACE THEN DeOk(<<>>, eat_char(w.de))
       ELSE IF w.peek = CH_COMMA THEN DeErr("TrailingComma", w.de)
       ELSE DeErr("TrailingCharacters", w.de)

\* The key where an entry starts, w the whitespace skipped in front of it:
\* a string; `}` here is behind a comma.
next_key_at(w, first) ==
    IF w.peek = NONE THEN AccessErr("EofWhileParsingValue", w.de, first)
    ELSE IF w.peek = CH_QUOTE THEN AccessSome(deserialize_str(w.de), FALSE)
    ELSE IF w.peek = CH_RBRACE THEN AccessErr("TrailingComma", w.de, first)
    ELSE AccessErr("KeyMustBeAString", w.de, first)

\* MapAccess::next_key_seed on the access object [de, first], v the bytes of
\* the key: `}` ends the map; a comma is required in front of every entry but
\* the first.
next_key_seed(acc) ==
    LET w == parse_whitespace(acc.de)
    IN IF w.peek = NONE THEN AccessErr("EofWhileParsingObject", w.de, acc.first)
       ELSE IF w.peek = CH_RBRACE THEN AccessNone(w.de, acc.first)
       ELSE IF w.peek = CH_COMMA /\ ~acc.first
            THEN next_key_at(parse_whitespace(eat_char(w.de)), acc.first)
       ELSE IF acc.first THEN next_key_at(w, acc.first)
       ELSE AccessErr("ExpectedObjectCommaOrEnd", w.de, acc.first)

\* The value of type T behind the colon c.
next_value_behind(c, T) == IF c.ok THEN deserialize(c.de, T) ELSE c

\* MapAccess::next_value_seed: the colon, then the value of type T.
next_value_seed(de, T) == next_value_behind(parse_object_colon(de), T)

RECURSIVE visit_map_struct(_, _, _)

\* The value val of field i behind key k is kept, that of field 0 dropped.
visit_map_struct_value(k, i, T, got, val) ==
    IF ~val.ok THEN val
    ELSE visit_map_struct([de |-> val.de, first |-> k.first], T,
                          IF i = 0 THEN got
                          ELSE [got EXCEPT ![i] = [some |-> TRUE, v |-> val.v]])

\* Field i behind key k: a second value of a field is duplicate_field; the
\* value of a field not known (i = 0) is read as IgnoredAny.
visit_map_struct_field(k, i, T, got) ==
    IF i # 0 /\ got[i].some THEN DeErr("CustomError", k.de)
    ELSE visit_map_struct_value(k, i, T, got,
             next_value_seed(k.de, IF i = 0 THEN "IgnoredAny" ELSE fields(T)[i][2]))

\* Behind next_key: None ends the struct, a field without a value is
\* missing_field.
visit_map_struct_key(k, T, got) ==
    IF ~k.ok THEN DeErr(k.err, k.de)
    ELSE IF ~k.some
         THEN IF \A j \in 1..Len(got) : got[j].some
              THEN DeOk([j \in 1..Len(got) |-> got[j].v], k.de)
              ELSE DeErr("CustomError", k.de)
    ELSE visit_map_struct_field(k,
             visit_str([j \in 1..Len(fields(T)) |-> fields(T)[j][1]], k.v), T, got)

\* The derived visitor of a struct: next_key until None.  got[i] is the
\* Option of field i.
visit_map_struct(acc, T, got) == visit_map_struct_key(next_key_seed(acc), T, got)

\* The visitor of IgnoredAny: next_entry::<IgnoredAny, IgnoredAny>() until
\* None; it knows no field and keeps no value.
visit_map_ignored(acc) == visit_map_struct(acc, "IgnoredAny", <<>>)

\* end_map behind the visitor's result.
deserialize_map_end(r) == IF ~r.ok THEN r ELSE behind(r.v, end_map(r.de))

\* deserialize_map / deserialize_struct with the visitor of target T.
deserialize_map(de, T) ==
    LET w == parse_whitespace(de)
        acc == [de |-> eat_char(w.de), first |-> TRUE]
    IN IF w.peek = NONE THEN DeErr("EofWhileParsingValue", w.de)
       ELSE IF w.peek = CH_LBRACE
            THEN deserialize_map_end(
                     IF T = "IgnoredAny" THEN visit_map_ignored(acc)
                     ELSE visit_map_struct(acc, T,
                              [j \in 1..Len(fields(T)) |-> [some |-> FALSE, v |-> 0]]))
       ELSE DeErr("InvalidType", w.de)

\* Mutant: the loop stops at a comma only.
ignore_loop_to_comma(de) ==
    LET stop == CHOOSE n \in de.index..Len(de.slice) :
                    /\ n < Len(de.slice) => de.slice[n + 1] = CH_COMMA
                    /\ \A m \in de.index..(n - 1) : de.slice[m + 1] # CH_COMMA
    IN IF stop = Len(de.slice) THEN DeErr("EofWhileParsingString", [de EXCEPT !.index = stop])
       ELSE DeOk(<<>>, [de EXCEPT !.index = stop])

RECURSIVE ignore_loop_past_delimiter(_)
\* Mutant: the loop eats the delimiter it stops at.
ignore_loop_past_delimiter(de) ==
    IF peek(de) = NONE THEN DeErr("EofWhileParsingString", de)
    ELSE IF peek(de) \in {CH_COMMA, CH_RBRACE, CH_RBRACKET} THEN DeOk(<<>>, eat_char(de))
    ELSE ignore_loop_past_delimiter(eat_char(de))

RECURSIVE ignore_loop(_)
\* The loop of deserialize_ignored_any: eat bytes up to `,`, `}` or `]`.
ignore_loop(de) ==
    IF peek(de) = NONE THEN DeErr("EofWhileParsingString", de)
    ELSE IF peek(de) \in {CH_COMMA, CH_RBRACE, CH_RBRACKET} THEN DeOk(<<>>, de)
    ELSE ignore_loop(eat_char(de))

\* The value of a visitor of IgnoredAny.
ignored(r) == IF r.ok THEN DeOk(<<>>, r.de) ELSE r

deserialize_ignored_any(de) ==
    LET w == parse_whitespace(de)
    IN IF w.peek = NONE THEN DeErr("EofWhileParsingValue", w.de)
       ELSE IF w.peek = CH_QUOTE THEN ignored(deserialize_str(w.de))
       ELSE IF w.peek = CH_LBRACKET THEN deserialize_seq(w.de, "IgnoredAny")
       ELSE IF w.peek = CH_LBRACE THEN deserialize_map(w.de, "IgnoredAny")
       ELSE IF w.peek \in {CH_COMMA, CH_RBRACE, CH_RBRACKET}
            THEN DeErr("ExpectedSomeValue", w.de)
       ELSE ignore_loop(w.de)

\* The `}` a variant access or deserialize_enum takes behind a value.
closing_brace(r) ==
    LET w == parse_whitespace(r.de)
    IN IF ~r.ok THEN r
       ELSE IF w.peek = NONE THEN DeErr("EofWhileParsingValue", w.de)
       ELSE IF w.peek = CH_RBRACE THEN DeOk(r.v, eat_char(w.de))
       ELSE DeErr("ExpectedSomeValue", w.de)

\* The names of the variants of an enum.
variant_names(T) == [i \in 1..Len(variants(T)) |-> variants(T)[i].name]

\* The derived identifier visitor of an enum: the position of the variant
\* named, unknown_variant for any other name.
variant_identifier(name, T) ==
    IF ~name.ok THEN name
    ELSE IF visit_str(variant_names(T), name.v) = 0 THEN DeErr("CustomError", name.de)
    ELSE DeOk(visit_str(variant_names(T), name.v), name.de)

\* UnitVariantAccess::variant_seed: the name alone.
UnitVariantAccess_variant_seed(de, T) == variant_identifier(deserialize_str(de), T)

\* The colon behind the variant.
variant_colon(val) ==
    IF ~val.ok THEN val ELSE behind(val.v, parse_object_colon(val.de))

\* StructVariantAccess::variant_seed: the name, then the colon.
StructVariantAccess_variant_seed(de, T) ==
    variant_colon(variant_identifier(deserialize_str(de), T))

\* UnitVariantAccess::unit_variant.
unit_variant(de) == DeOk(<<>>, de)

\* StructVariantAccess::unit_variant.
StructVariantAccess_unit_variant(de) == DeErr("InvalidType", de)

\* StructVariantAccess::newtype_variant_seed: the value of type T, then `}`.
newtype_variant_seed(de, T) == closing_brace(deserialize(de, T))

\* Mutant: tuple_variant reads a nested array, then `}`.
tuple_variant_nested_array(de) == closing_brace(deserialize_seq(de, "[u8;2]"))

\* StructVariantAccess::tuple_variant.
tuple_variant(de) == DeErr("InvalidType", de)

\* StructVariantAccess::struct_variant: the struct T, then `}`.
struct_variant(de, T) == closing_brace(deserialize_map(de, T))

\* The enum value of the variant and its payload.
variant_value(variant, value) ==
    IF ~value.ok THEN value
    ELSE DeOk([variant |-> variant.name, v |-> value.v], value.de)

\* The derived visit_enum behind variant_seed of UnitVariantAccess:
\* unit_variant for a unit variant; every other operation of the access is
\* InvalidType.
visit_enum_unit_variant(val, T) ==
    IF ~val.ok THEN val
    ELSE variant_value(variants(T)[val.v],
             IF variants(T)[val.v].form = "unit" THEN unit_variant(val.de)
             ELSE DeErr("InvalidType", val.de))

visit_enum_unit(de, T) == visit_enum_unit_variant(UnitVariantAccess_variant_seed(de, T), T)

\* The operation of StructVariantAccess the derived visitor invokes for a
\* variant.
visit_enum_struct_payload(variant, de) ==
    CASE variant.form = "unit" -> StructVariantAccess_unit_variant(de)
      [] variant.form = "newtype" -> newtype_variant_seed(de, variant.payload)
      [] variant.form = "tuple" -> tuple_variant(de)
      [] variant.form = "struct" -> struct_variant(de, variant.payload)

\* The derived visit_enum behind variant_seed of StructVariantAccess.
visit_enum_struct_variant(val, T) ==
    IF ~val.ok THEN val
    ELSE variant_value(variants(T)[val.v],
                       visit_enum_struct_payload(variants(T)[val.v], val.de))

visit_enum_struct(de, T) ==
    visit_enum_struct_variant(StructVariantAccess_variant_seed(de, T), T)

deserialize_enum(de, T) ==
    LET w == parse_whitespace(de)
    IN IF w.peek = NONE THEN DeErr("EofWhileParsingValue", w.de)
       ELSE IF w.peek = CH_QUOTE THEN visit_enum_unit(w.de, T)
       ELSE IF w.peek = CH_LBRACE
            THEN closing_brace(visit_enum_struct(eat_char(w.de), T))
       ELSE DeErr("ExpectedSomeValue", w.de)

\* de::Deserialize::deserialize(&mut de) for the target type T.
deserialize(de, T) ==
    CASE T = "bool" -> deserialize_bool(de)
      [] T \in {"u8", "u16"} -> deserialize_unsigned(de, T)
      [] T \in {"i8", "i16"} -> deserialize_signed(de, T)
      [] T = "str" -> deserialize_str(de)
      [] T \in ArrayTargets \cup VecTargets -> deserialize_seq(de, T)
      [] T \in StructTargets -> deserialize_map(de, T)
      [] T \in EnumTargets -> deserialize_enum(de, T)
      [] T = "IgnoredAny" -> deserialize_ignored_any(de)

\* The value and the length consumed, when only whitespace follows it.
from_slice_value(r) ==
    LET e == end(r.de)
    IN IF ~r.ok THEN [tag |-> r.err, value |-> <<>>, n |-> 0]
       ELSE IF ~e.ok THEN [tag |-> e.err, value |-> <<>>, n |-> 0]
       ELSE [tag |-> "Ok", value |-> r.v, n |-> e.v]

\* from_slice::<T>(v): [tag, value, n]: Ok((value, n)) or the error.
from_slice(v, T) == from_slice_value(deserialize(Deserializer_new(v), T))

-----------------------------------------------------------------------------
(* The reader as a state machine: a caller hands a byte string to          *)
(* from_slice::<T> and receives its result.                                *)

\* Bytes around a value: the four the reader skips, form feed, and a letter.
PadBytes == {CH_TAB, CH_LF, CH_CR, CH_SPACE, 12}

TailBytes == PadBytes \cup {102}

\* Longest run in front of a value, longest run behind it.
MaxLead == 1

MaxTail == 2

\* The cores, each between every run in front of it and every run behind it.
Padded(cores) ==
    {lead \o core \o tail : lead \in SeqsUpTo(PadBytes, MaxLead),
                            core \in cores,
                            tail \in SeqsUpTo(TailBytes, MaxTail)}

RECURSIVE Decimal(_)
\* The decimal digits of a natural number.
Decimal(n) == IF n < 10 THEN <<CH_ZERO + n>> ELSE Decimal(n \div 10) \o <<CH_ZERO + (n % 10)>>

\* Magnitudes of the numbers read: everything around the 8-bit limits, and
\* the 16-bit limits with the values a wrapped accumulator would confuse.
Magnitudes ==
    (0..300) \cup {511, 512, 999, 1000, 1280, 2550, 2559, 2560, 9999, 10000,
                   25600, 32760, 32767, 32768, 32769, 32770, 65530, 65535,
                   65536, 65537, 65540, 99999, 100000, 131072, 327670, 327680,
                   655350, 655360, 999999}

\* Numbers written with a leading zero.
ZeroLed == {<<CH_ZERO>> \o Decimal(m) : m \in {0, 1, 7, 12, 128, 129, 256, 300}}

\* Texts that are no number.
NoNumber == {<<>>, <<CH_MINUS>>, <<CH_MINUS, CH_MINUS, 49>>, <<CH_PLUS, 49>>, <<97>>,
             <<49, 97>>, <<49, 46, 53>>, <<CH_MINUS, 97>>}

IntCores ==
    LET digits == {Decimal(m) : m \in Magnitudes} \cup ZeroLed
    IN digits \cup {<<CH_MINUS>> \o d : d \in digits} \cup NoNumber

BoolCores == {STR_true, STR_false, <<116, 114, 117>>, <<>>}

\* Bytes after the opening quote of a string: quote, backslash, a letter, and
\* the two bytes of U+00E9.
StrBytes == {CH_QUOTE, CH_BACKSLASH, 97, 195, 169}

\* Longest run after the opening quote.
MaxBody == 5

StrCores == {<<CH_QUOTE>> \o body : body \in SeqsUpTo(StrBytes, MaxBody)}

\* Bytes after the opening bracket of an array.
SeqBytes == {CH_RBRACKET, CH_COMMA, CH_SPACE, 49}

\* Longest run after the opening bracket.
MaxSeqBody == 5

SeqCores == {<<CH_LBRACKET>> \o body : body \in SeqsUpTo(SeqBytes, MaxSeqBody)}

Targets == ScalarTargets \cup ArrayTargets \cup VecTargets

\* The byte strings handed to from_slice::<T>.
Inputs(T) ==
    CASE T = "bool" -> Padded(BoolCores)
      [] T \in IntTypes ->
            IntCores \cup Padded({<<>>, <<55>>, <<CH_MINUS, 55>>})
      [] T = "str" ->
            StrCores \cup Padded({<<CH_QUOTE, 97, CH_QUOTE>>})
      [] T \in ArrayTargets \cup VecTargets ->
            SeqCores \cup (IF T \in {"[u8;1]", "Vec<u8,2>"}
                           THEN Padded({<<CH_LBRACKET, 49, CH_RBRACKET>>})
                           ELSE {})

DeInit ==
    /\ StrIdle
    /\ BuilderIdle
    /\ AccessIdle
    /\ SinksIdle
    /\ \E T \in Targets : \E s \in Inputs(T) : target = T /\ input = s
    /\ result = NoResult
    /\ pc = "start"
    /\ buf = <<>>
    /\ current_length = 0
    /\ panicked = FALSE
    /\ op = [name |-> "none", arg |-> <<>>]
    /\ ret = [tag |-> "Ok", n |-> 0]

\* The kind of a target type: which production of the reader it is read by.
target_kind(T) ==
    CASE T = "bool" -> "bool"
      [] T \in {"u8", "u16"} -> "unsigned"
      [] T \in {"i8", "i16"} -> "signed"
      [] T = "str" -> "str"
      [] T \in ArrayTargets -> "array"
      [] T \in VecTargets -> "vec"
      [] T \in StructTargets -> "struct"
      [] T \in EnumTargets -> "enum"
      [] T = "IgnoredAny" -> "ignored"

\* from_slice::<T>(input) for a target type T of the kind.
FromSlice(kind) ==
    /\ pc = "start"
    /\ target_kind(target) = kind
    /\ result' = from_slice(input, target)
    /\ pc' = "returned"
    /\ UNCHANGED <<input, target, ser_vars, ext_vars>>

FromSliceBool == FromSlice("bool")

FromSliceUnsigned == FromSlice("unsigned")

FromSliceSigned == FromSlice("signed")

FromSliceStr == FromSlice("str")

FromSliceArray == FromSlice("array")

FromSliceVec == FromSlice("vec")

DeNext ==
    \/ FromSliceBool
    \/ FromSliceUnsigned
    \/ FromSliceSigned
    \/ FromSliceStr
    \/ FromSliceArray
    \/ FromSliceVec

SpecDe == DeInit /\ [][DeNext]_vars

-----------------------------------------------------------------------------
(* The round trip: a caller renders an integer with to_slice and hands     *)
(* the bytes written to from_slice of the same type.                       *)

RTInit ==
    /\ StrIdle
    /\ BuilderIdle
    /\ AccessIdle
    /\ SinksIdle
    /\ \E ty \in IntTypes : target = ty /\ buf = zeroed(digits_N(ty))
    /\ current_length = 0
    /\ panicked = FALSE
    /\ op = [name |-> "new", arg |-> <<>>]
    /\ ret = [tag |-> "Ok", n |-> 0]
    /\ input = <<>>
    /\ result = NoResult
    /\ pc = "start"

\* to_slice(&v, buf) for a value v of the type.
Encode(v) ==
    LET r == to_slice(VInt(target, v), buf)
    IN /\ pc = "start"
       /\ op' = [name |-> "to_slice", arg |-> VInt(target, v)]
       /\ buf' = r.s.buf
       /\ current_length' = r.s.current_length
       /\ panicked' = r.s.panicked
       /\ ret' = [tag |-> r.tag, n |-> r.n]
       /\ pc' = "encoded"
       /\ UNCHANGED <<input, target, result, ext_vars>>

\* from_slice(&buf[..n]) into the same type.
Decode ==
    /\ pc = "encoded"
    /\ ret.tag = "Ok"
    /\ input' = Slice(buf, 0, ret.n)
    /\ result' = from_slice(input', target)
    /\ pc' = "decoded"
    /\ UNCHANGED <<target, ser_vars, ext_vars>>

RTNext ==
    \/ pc = "start" /\ \E v \in min_value(target)..max_value(target) : Encode(v)
    \/ Decode

SpecRT == RTInit /\ [][RTNext]_vars

-----------------------------------------------------------------------------
(* Escaped strings: EscapedStr and its fragment iterator (src/str.rs).     *)
(*                                                                         *)
(* A &str is the sequence of its UTF-8 bytes.  unescape_next_fragment      *)
(* returns [ok, kind, text, c, rest]: Ok((NotEscaped(text), rest)),        *)
(* Ok((Escaped(c), rest)) or Err(InvalidEscapeSequence).                   *)

NotEscaped(text, rest) ==
    [ok |-> TRUE, kind |-> "NotEscaped", text |-> text, c |-> NONE, rest |-> rest]

Escaped(c, rest) ==
    [ok |-> TRUE, kind |-> "Escaped", text |-> <<>>, c |-> c, rest |-> rest]

InvalidEscapeSequence(escaped_string) ==
    [ok |-> FALSE, kind |-> "InvalidEscapeSequence", text |-> <<>>, c |-> NONE,
     rest |-> escaped_string]

\* str::is_char_boundary: index 0, the length, or a byte that continues no character.
is_char_boundary(s, index) ==
    \/ index = 0
    \/ index = Len(s)
    \/ index < Len(s) /\ ~utf8_cont(s[index + 1])

\* split_first_slice: Some((s.get(..len)?, s.get(len..)?)) as [some, head, tail].
split_first_slice(s, len) ==
    IF len <= Len(s) /\ is_char_boundary(s, len)
    THEN [some |-> TRUE, head |-> SubSeq(s, 1, len), tail |-> SubSeq(s, len + 1, Len(s))]
    ELSE [some |-> FALSE, head |-> <<>>, tail |-> <<>>]

\* char::to_digit(radix) of a byte, NONE if it is no digit of the radix.
to_digit(b, radix) ==
    LET d == IF b \in 48..57 THEN b - 48
             ELSE IF b \in 97..122 THEN b - 87
             ELSE IF b \in 65..90 THEN b - 55
             ELSE radix
    IN IF d < radix THEN d ELSE NONE

RECURSIVE digits_value(_, _, _)
\* The digits folded from the left onto acc, NONE if a byte is no digit.
digits_value(digits, radix, acc) ==
    IF digits = <<>> THEN acc
    ELSE IF to_digit(Head(digits), radix) = NONE THEN NONE
    ELSE digits_value(Tail(digits), radix, acc * radix + to_digit(Head(digits), radix))

\* Mutant: the four characters behind `\u` are read as a decimal number.
from_str_radix_decimal(src, radix) ==
    LET digits == IF src # <<>> /\ src[1] = CH_PLUS THEN Tail(src) ELSE src
        v == digits_value(digits, 10, 0)
    IN IF digits = <<>> \/ v = NONE THEN [some |-> FALSE, v |-> 0]
       ELSE [some |-> TRUE, v |-> v]

\* u32::from_str_radix(src, radix).ok() as [some, v]: an optional `+`, then
\* one digit or more (a `-` is no digit for an unsigned type).
from_str_radix(src, radix) ==
    LET digits == IF src # <<>> /\ src[1] = CH_PLUS THEN Tail(src) ELSE src
        v == digits_value(digits, radix, 0)
    IN IF digits = <<>> \/ v = NONE THEN [some |-> FALSE, v |-> 0]
       ELSE [some |-> TRUE, v |-> v]

\* char::from_u32 is Some: a scalar value, no surrogate.
char_from_u32(i) == i \notin 55296..57343 /\ i <= 1114111

\* str::find('\\').unwrap_or(len): the Rust index of the first backslash.
find_backslash(s) ==
    IF \E i \in 1..Len(s) : s[i] = CH_BACKSLASH
    THEN (CHOOSE i \in 1..Len(s) :
              s[i] = CH_BACKSLASH /\ \A j \in 1..(i - 1) : s[j] # CH_BACKSLASH) - 1
    ELSE Len(s)

unescape_next_fragment(escaped_string) ==
    IF escaped_string # <<>> /\ escaped_string[1] = CH_BACKSLASH
    THEN LET after == Tail(escaped_string)
             ch == IF after = <<>> THEN NONE ELSE after[1]
             chars == IF after = <<>> THEN <<>> ELSE Tail(after)
         IN CASE ch = 34 -> Escaped(34, chars)
              [] ch = 92 -> Escaped(92, chars)
              [] ch = 47 -> Escaped(47, chars)
              [] ch = 98 -> Escaped(8, chars)
              [] ch = 102 -> Escaped(12, chars)
              [] ch = 110 -> Escaped(10, chars)
              [] ch = 114 -> Escaped(13, chars)
              [] ch = 116 -> Escaped(9, chars)
              [] ch = 117 ->
                    LET split == split_first_slice(chars, 4)
                        code == from_str_radix(split.head, 16)
                    IN IF split.some /\ code.some /\ char_from_u32(code.v)
                       THEN Escaped(code.v, split.tail)
                       ELSE InvalidEscapeSequence(escaped_string)
              [] OTHER -> InvalidEscapeSequence(escaped_string)
    ELSE LET mid == find_backslash(escaped_string)
         IN NotEscaped(SubSeq(escaped_string, 1, mid),
                       SubSeq(escaped_string, mid + 1, Len(escaped_string)))

\* The longest rendering of a string of MaxStrLen characters: six bytes for
\* each, and the two quotes.
StrCap == 6 * MaxStrLen + 2

\* Escaped texts a caller wraps by hand, as runs of these pieces: plain text,
\* the escapes, and escapes that are cut short or malformed.
Pieces ==
    << <<97>>, <<195, 169>>,
       <<92, 34>>, <<92, 92>>, <<92, 47>>, <<92, 98>>, <<92, 102>>, <<92, 110>>,
       <<92, 114>>, <<92, 116>>,
       <<92, 117, 48, 48, 52, 49>>, <<92, 117, 50, 48, 97, 67>>,
       <<92, 117, 68, 56, 48, 48>>, <<92, 117, 43, 48, 52, 49>>,
       <<92, 117, 45, 48, 52, 49>>, <<92, 117, 48, 48, 52>>,
       <<92, 120>>, <<92>> >>

MaxPieces == 2

RECURSIVE pieces_of(_)
pieces_of(ks) == IF ks = <<>> THEN <<>> ELSE Pieces[Head(ks)] \o pieces_of(Tail(ks))

StrInit ==
    /\ StrIdle
    /\ BuilderIdle
    /\ AccessIdle
    /\ SinksIdle
    /\ buf = zeroed(StrCap)
    /\ current_length = 0
    /\ panicked = FALSE
    /\ op = [name |-> "new", arg |-> <<>>]
    /\ ret = [tag |-> "Ok", n |-> 0]
    /\ input = <<>>
    /\ target = ""
    /\ result = NoResult
    /\ pc = "start"

\* to_slice(&s, buf) of a string s; the caller wraps the bytes written
\* between the two quotes as an EscapedStr and asks for its fragments().
EscapeStr(cs) ==
    LET r == to_slice(VStr(cs), buf)
    IN /\ pc = "start"
       /\ r.tag = "Ok"
       /\ op' = [name |-> "to_slice", arg |-> VStr(cs)]
       /\ buf' = r.s.buf
       /\ current_length' = r.s.current_length
       /\ panicked' = r.s.panicked
       /\ ret' = [tag |-> r.tag, n |-> r.n]
       /\ span' = Slice(r.s.buf, 1, r.n - 1)
       /\ remaining' = span'
       /\ fragments' = <<>>
       /\ pc' = "iterating"
       /\ UNCHANGED <<input, target, result, builder_vars, access, sinks>>

\* EscapedStr(text).fragments() for a text the caller brings.
Wrap(ks) ==
    /\ pc = "start"
    /\ span' = pieces_of(ks)
    /\ remaining' = span'
    /\ fragments' = <<>>
    /\ pc' = "iterating"
    /\ UNCHANGED <<input, target, result, ser_vars, builder_vars, access, sinks>>

\* Calls of next() that the caller makes after next() has returned an error.
MaxRepeat == 2

\* Mutant: a failing call skips the backslash it failed at.
next_past_error(rem) ==
    IF rem = <<>> THEN [some |-> FALSE, item |-> InvalidEscapeSequence(rem), rest |-> rem]
    ELSE [some |-> TRUE,
          item |-> unescape_next_fragment(rem),
          rest |-> IF unescape_next_fragment(rem).ok
                   THEN unescape_next_fragment(rem).rest ELSE Tail(rem)]

\* EscapedStringFragmentIter::next on an iterator over rem: [some, item, rest],
\* rest what the iterator is over afterwards (self.0 = rest runs on Ok only).
next(rem) ==
    IF rem = <<>> THEN [some |-> FALSE, item |-> InvalidEscapeSequence(rem), rest |-> rem]
    ELSE [some |-> TRUE,
          item |-> unescape_next_fragment(rem),
          rest |-> IF unescape_next_fragment(rem).ok
                   THEN unescape_next_fragment(rem).rest ELSE rem]

\* The number of errors next() has returned.
errors == Cardinality({i \in 1..Len(fragments) : ~fragments[i].ok})

\* A call of next(); after an error the caller calls again up to MaxRepeat times.
IterNext ==
    /\ pc \in {"iterating", "failed"}
    /\ pc = "failed" => errors <= MaxRepeat
    /\ IF ~next(remaining).some
       THEN /\ pc' = "exhausted"
            /\ UNCHANGED <<remaining, fragments>>
       ELSE /\ fragments' = Append(fragments, next(remaining).item)
            /\ remaining' = next(remaining).rest
            /\ pc' = IF next(remaining).item.ok THEN "iterating" ELSE "failed"
    /\ UNCHANGED <<span, input, target, result, ser_vars, builder_vars, access, sinks>>

\* EscapedStr::fragments() once more, on the EscapedStr the caller kept.
Fragments ==
    /\ pc \in {"exhausted", "failed"}
    /\ remaining' = span
    /\ fragments' = <<>>
    /\ pc' = "iterating"
    /\ UNCHANGED <<span, input, target, result, ser_vars, builder_vars, access, sinks>>

StrNext ==
    \/ pc = "start" /\ \E cs \in SeqsUpTo(Chars, MaxStrLen) : EscapeStr(cs)
    \/ pc = "start" /\ \E ks \in SeqsUpTo(1..Len(Pieces), MaxPieces) : Wrap(ks)
    \/ IterNext
    \/ Fragments

SpecStr == StrInit /\ [][StrNext]_vars

\* The caller keeps calling next(): a call that can be made is made.
SpecStrFair == SpecStr /\ WF_vars(IterNext)

\* A capacity that is no constraint for the values rendered.
AmpleCap == 64

-----------------------------------------------------------------------------
(* The container builders driven step by step: a caller opens a builder    *)
(* on a serializer, hands it children one at a time and calls end().       *)

\* The children handed to the builders, by position.
Children ==
    <<VBool(TRUE), VInt("i8", 0 - 1), VNone,
      VSeq(<<VInt("u8", 1), VInt("u8", 2)>>),
      VStruct(<< <<(<<97>>), VInt("u8", 7)>> >>)>>

\* The field names of the structs built, by position.
Keys == << <<97>>, <<120, 121>> >>

\* The keys of the maps built, by position: strings, one with a quote in it,
\* and an integer.
MapKeys == <<VStr(<<97>>), VStr(<<34>>), VInt("u8", 1)>>

\* The variant the struct variants are built for.
VariantName == <<65>>

BuilderKinds == {"seq", "map", "struct", "struct_variant"}

MaxChildren == 3

BuildInit ==
    /\ StrIdle
    /\ BuilderIdle
    /\ AccessIdle
    /\ SinksIdle
    /\ buf = zeroed(AmpleCap)
    /\ current_length = 0
    /\ panicked = FALSE
    /\ op = [name |-> "new", arg |-> <<>>]
    /\ ret = [tag |-> "Ok", n |-> 0]
    /\ input = <<>>
    /\ target = ""
    /\ result = NoResult
    /\ pc = "start"

\* The builder of the state over the serializer of the state.
held == [r |-> [ok |-> TRUE, s |-> ser_state], first |-> builder.first]

\* The state after a builder method that left the builder as b.
hold(b) ==
    /\ ser_return(b.r)
    /\ builder' = [builder EXCEPT !.first = b.first]

\* serialize_seq, serialize_map, serialize_struct or serialize_struct_variant
Begin(kind) ==
    LET b == CASE kind = "seq" -> Builder_new(push(ser_state, CH_LBRACKET))
               [] kind \in {"map", "struct"} -> serialize_struct(ser_state)
               [] kind = "struct_variant" -> serialize_struct_variant(ser_state, VariantName)
    IN /\ pc = "start"
       /\ op' = [name |-> "begin", arg |-> <<>>]
       /\ ser_return(b.r)
       /\ builder' = [kind |-> kind, first |-> b.first]
       /\ children' = <<>>
       /\ pc' = "building"
       /\ UNCHANGED <<input, target, result, str_vars, access, sinks>>

\* Whether the caller goes on: the builder is open and no write has failed.
building == pc = "building" /\ ret.tag = "Ok" /\ Len(children) < MaxChildren

\* SerializeSeq::serialize_element(&Children[k])
Element(k) ==
    /\ building
    /\ builder.kind = "seq"
    /\ op' = [name |-> "serialize_element", arg |-> <<k>>]
    /\ hold(serialize_element(held, Children[k]))
    /\ children' = Append(children, <<(<<>>), Children[k]>>)
    /\ UNCHANGED <<de_vars, str_vars, access, sinks>>

\* SerializeStruct{,Variant}::serialize_field(Keys[j], &Children[k])
Field(j, k) ==
    /\ building
    /\ builder.kind \in {"struct", "struct_variant"}
    /\ op' = [name |-> "serialize_field", arg |-> <<j, k>>]
    /\ hold(serialize_field(held, Keys[j], Children[k]))
    /\ children' = Append(children, <<Keys[j], Children[k]>>)
    /\ UNCHANGED <<de_vars, str_vars, access, sinks>>

\* SerializeMap::serialize_entry(&MapKeys[j], &Children[k]): serialize_key,
\* then serialize_value.
Entry(j, k) ==
    LET key == serialize_key(held, MapKeys[j])
    IN /\ building
       /\ builder.kind = "map"
       /\ op' = [name |-> "serialize_entry", arg |-> <<j, k>>]
       /\ hold(IF key.r.ok THEN serialize_value(key, Children[k]) ELSE key)
       /\ children' = Append(children, <<MapKeys[j], Children[k]>>)
       /\ UNCHANGED <<de_vars, str_vars, access, sinks>>

\* end() of the builder
End ==
    /\ pc = "building"
    /\ ret.tag = "Ok"
    /\ op' = [name |-> "end", arg |-> <<>>]
    /\ ser_return(CASE builder.kind = "seq" -> SerializeSeq_end(held)
                    [] builder.kind \in {"map", "struct"} -> SerializeStruct_end(held)
                    [] builder.kind = "struct_variant" -> SerializeStructVariant_end(held))
    /\ pc' = "ended"
    /\ UNCHANGED <<input, target, result, str_vars, builder_vars, access, sinks>>

BuildNext ==
    \/ \E kind \in BuilderKinds : Begin(kind)
    \/ \E k \in 1..Len(Children) : Element(k)
    \/ \E j \in 1..Len(Keys) : \E k \in 1..Len(Children) : Field(j, k)
    \/ \E j \in 1..Len(MapKeys) : \E k \in 1..Len(Children) : Entry(j, k)
    \/ End

SpecBuild == BuildInit /\ [][BuildNext]_vars

-----------------------------------------------------------------------------
(* Objects: a caller hands the text of a struct, of an enum or of a value   *)
(* to ignore to from_slice, and renders a decoded enum value again.        *)

\* Values without children: a number, a string, and a string that holds an
\* escaped quote and a bracket.
Scalars == {<<49>>, <<34, 97, 34>>, <<34, 92, 34, 93, 34>>}

\* A value in an array and in an object, alone and in front of a second
\* child, compact and with spaces.
Nest(v) ==
    { <<91>> \o v \o <<93>>,
      <<91>> \o v \o <<44, 50, 93>>,
      <<123, 34, 97, 34, 58>> \o v \o <<125>>,
      <<123, 32, 34, 97, 34, 32, 58, 32>> \o v
          \o <<32, 44, 32, 34, 98, 34, 32, 58, 32, 91, 32, 49, 32, 93, 32, 125>> }

RECURSIVE Nested(_)
\* The well-formed values nested up to the depth.
Nested(depth) ==
    IF depth = 0 THEN Scalars
    ELSE Nested(depth - 1) \cup {<<91, 93>>, <<123, 125>>}
         \cup UNION {Nest(v) : v \in Nested(depth - 1)}

MaxDepth == 3

\* What follows a value to ignore.
Tails == {<<>>, <<44>>, <<32, 93>>, <<125>>}

Prefixes(s) == {SubSeq(s, 1, n) : n \in 0..Len(s)}

\* `{"temperature":20` in front of an unknown field, and behind it.
TemperatureTexts ==
    LET known == <<34, 116, 101, 109, 112, 101, 114, 97, 116, 117, 114, 101, 34, 58, 50, 48>>
        extra == <<34, 101, 120, 116, 114, 97, 34, 58>>
    IN {<<123>> \o known \o <<44>> \o extra \o v \o <<125>> : v \in Nested(MaxDepth)}
       \cup {<<123>> \o extra \o v \o <<44>> \o known \o <<125>> : v \in Nested(MaxDepth)}
       \cup UNION {Prefixes(<<123>> \o known \o <<44>> \o extra \o v \o <<44, 125>>) :
                       v \in Nested(1)}

\* `"Thing"`, `{"A":54}`, `{"A":{"x":54,"y":720}}` compact and with spaces,
\* `{"T":[1,2]}`.
TextThing == <<34, 84, 104, 105, 110, 103, 34>>

TextA54 == <<123, 34, 65, 34, 58, 53, 52, 125>>

TextAxy == <<123, 34, 65, 34, 58, 123, 34, 120, 34, 58, 53, 52, 44,
             34, 121, 34, 58, 55, 50, 48, 125, 125>>

TextAxySpaced == <<123, 34, 65, 34, 58, 32, 123, 34, 120, 34, 58, 53, 52, 44,
                   34, 121, 34, 58, 55, 50, 48, 32, 125, 32, 125>>

TextT12 == <<123, 34, 84, 34, 58, 91, 49, 44, 50, 93, 125>>

\* Texts of enums: those above, `"T"`, `"A"`, `{"Thing":1}`, `{"B":1}`,
\* `{"A":300}`, each followed by up to two closing braces, and every prefix
\* of these.
EnumTexts ==
    LET texts == {TextThing, <<34, 84, 34>>, <<34, 65, 34>>,
                  TextA54, TextAxy, TextAxySpaced, TextT12,
                  <<123, 34, 84, 104, 105, 110, 103, 34, 58, 49, 125>>,
                  <<123, 34, 66, 34, 58, 49, 125>>,
                  <<123, 34, 65, 34, 58, 51, 48, 48, 125>>}
    IN UNION {Prefixes(s \o <<125, 32, 125>>) : s \in texts}

\* Bytes of a text to ignore that starts as no value of JSON: a letter, a
\* quote, the three end delimiters and a space.
BareBytes == {116, CH_QUOTE, CH_COMMA, CH_RBRACE, CH_RBRACKET, CH_SPACE}

\* Longest text of these bytes.
MaxBare == 4

ObjectTargets == StructTargets \cup EnumTargets \cup {"IgnoredAny"}

ObjectInputs(T) ==
    CASE T = "Temperature" -> TemperatureTexts
      [] T = "A{x,y}" -> EnumTexts
      [] T \in EnumTargets -> EnumTexts
      [] T = "IgnoredAny" -> {v \o tail : v \in Nested(MaxDepth), tail \in Tails}
                             \cup SeqsUpTo(BareBytes, MaxBare)

ObjInit ==
    /\ StrIdle
    /\ BuilderIdle
    /\ AccessIdle
    /\ SinksIdle
    /\ \E T \in ObjectTargets : \E s \in ObjectInputs(T) : target = T /\ input = s
    /\ result = NoResult
    /\ pc = "start"
    /\ buf = zeroed(AmpleCap)
    /\ current_length = 0
    /\ panicked = FALSE
    /\ op = [name |-> "new", arg |-> <<>>]
    /\ ret = [tag |-> "Ok", n |-> 0]

\* The enum value from_slice::<T> returned, as the writer is handed it.
to_value(T, value) ==
    LET i == visit_str([k \in 1..Len(variants(T)) |-> variants(T)[k].name], value.variant)
        variant == variants(T)[i]
    IN CASE variant.form = "unit" -> VUnitVariant(variant.name)
         [] variant.form = "newtype" ->
               VNewtypeVariant(variant.name, VInt(variant.payload, value.v))
         [] variant.form = "struct" ->
               VStructVariant(variant.name,
                   [k \in 1..Len(fields(variant.payload)) |->
                       <<fields(variant.payload)[k][1],
                         VInt(fields(variant.payload)[k][2], value.v[k])>>])

\* to_slice(&value, buf) of the enum value from_slice returned.
ToSliceDecoded ==
    LET r == to_slice(to_value(target, result.value), buf)
    IN /\ pc = "returned"
       /\ result.tag = "Ok"
       /\ target \in EnumTargets
       /\ op' = [name |-> "to_slice", arg |-> <<>>]
       /\ buf' = r.s.buf
       /\ current_length' = r.s.current_length
       /\ panicked' = r.s.panicked
       /\ ret' = [tag |-> r.tag, n |-> r.n]
       /\ pc' = "encoded"
       /\ UNCHANGED <<input, target, result, ext_vars>>

FromSliceStruct == FromSlice("struct")

FromSliceEnum == FromSlice("enum")

FromSliceIgnored == FromSlice("ignored")

ObjNext ==
    \/ FromSliceStruct
    \/ FromSliceEnum
    \/ FromSliceIgnored
    \/ ToSliceDecoded

SpecObject == ObjInit /\ [][ObjNext]_vars

-----------------------------------------------------------------------------
(* The variant access: deserialize_enum meets `{`, eats it and hands the   *)
(* access object to a visitor, which calls variant_seed and then one of    *)
(* the operations that consume the payload.                                *)

\* The payload types a visitor asks newtype_variant_seed for.
NewtypeTargets == {"u8", "u16"}

EnumInit ==
    /\ StrIdle
    /\ BuilderIdle
    /\ AccessIdle
    /\ SinksIdle
    /\ \E T \in EnumTargets : \E s \in EnumTexts : target = T /\ input = s
    /\ result = NoResult
    /\ pc = "start"
    /\ buf = <<>>
    /\ current_length = 0
    /\ panicked = FALSE
    /\ op = [name |-> "none", arg |-> <<>>]
    /\ ret = [tag |-> "Ok", n |-> 0]

\* StructVariantAccess::new(self).variant_seed(seed) behind the `{`.
VariantSeed ==
    /\ pc = "start"
    /\ parse_whitespace(Deserializer_new(input)).peek = CH_LBRACE
    /\ result' = StructVariantAccess_variant_seed(
                     eat_char(parse_whitespace(Deserializer_new(input)).de), target)
    /\ access' = [op |-> "variant_seed", index |-> 0, T |-> target]
    /\ pc' = IF result'.ok THEN "variant" ELSE "failed"
    /\ UNCHANGED <<input, target, ser_vars, str_vars, builder_vars, sinks>>

\* The operation of StructVariantAccess of the name, for the payload type T.
consume(name, de, T) ==
    CASE name = "unit_variant" -> StructVariantAccess_unit_variant(de)
      [] name = "newtype_variant_seed" -> newtype_variant_seed(de, T)
      [] name = "tuple_variant" -> tuple_variant(de)
      [] name = "struct_variant" -> struct_variant(de, T)

\* The visitor consumes the payload with the operation of the name.
Consume(name, T) ==
    /\ pc = "variant"
    /\ result' = consume(name, result.de, T)
    /\ access' = [op |-> name, index |-> result.de.index, T |-> T]
    /\ pc' = "consumed"
    /\ UNCHANGED <<input, target, ser_vars, str_vars, builder_vars, sinks>>

UnitVariant == Consume("unit_variant", "")

NewtypeVariantSeed == \E T \in NewtypeTargets : Consume("newtype_variant_seed", T)

TupleVariant == Consume("tuple_variant", "[u8;2]")

StructVariant == Consume("struct_variant", "A{x,y}")

EnumNext ==
    \/ VariantSeed
    \/ UnitVariant
    \/ NewtypeVariantSeed
    \/ TupleVariant
    \/ StructVariant

SpecEnum == EnumInit /\ [][EnumNext]_vars

-----------------------------------------------------------------------------
(* The loops of the reader, one iteration a step.  access.op names the     *)
(* loop, access.index is self.index, access.T the integer type of the      *)
(* digit loop; result.n is the index at which the loop was entered and     *)
(* result.value the number accumulated so far.                             *)

Loops ==
    {"parse_whitespace", "parse_str", "deserialize_unsigned", "deserialize_signed",
     "deserialize_fromstr", "deserialize_ignored_any"}

\* The bytes of the texts a loop runs over.
LoopBytes(name) ==
    CASE name = "parse_whitespace" -> {CH_SPACE, CH_LF, CH_CR, 49}
      [] name = "parse_str" -> {CH_QUOTE, CH_BACKSLASH, 97, 195}
      [] name \in {"deserialize_unsigned", "deserialize_signed"} -> {CH_MINUS, 49, 57, CH_COMMA}
      [] name = "deserialize_fromstr" -> {49, 46, 101, CH_COMMA}
      [] name = "deserialize_ignored_any" -> {116, CH_QUOTE, CH_SPACE, CH_RBRACE}

\* Longest text a loop runs over.
MaxScan == 4

\* if signed { -1 } else { 1 }: a `-` was eaten in front of the first digit,
\* which is s[start]; deserialize_unsigned! eats none.
loop_sign(name, s, start) ==
    IF name = "deserialize_signed" /\ start >= 2 /\ s[start - 1] = CH_MINUS THEN 0 - 1 ELSE 1

\* Whether a loop is entered on the text s with the cursor at start.
Entered(name, s, start) ==
    CASE name = "parse_whitespace" -> TRUE
      [] name = "parse_str" -> start >= 1 /\ s[start] = CH_QUOTE
      [] name = "deserialize_unsigned" -> start >= 1 /\ s[start] \in 49..57
      [] name = "deserialize_signed" -> start >= 1 /\ s[start] \in 49..57
      [] name = "deserialize_fromstr" -> start < Len(s) /\ ~is_whitespace(s[start + 1])
      [] name = "deserialize_ignored_any" ->
            /\ start < Len(s)
            /\ ~is_whitespace(s[start + 1])
            /\ s[start + 1] \notin {CH_QUOTE, CH_LBRACKET, CH_LBRACE, CH_COMMA, CH_RBRACE, CH_RBRACKET}

LoopInit ==
    /\ StrIdle
    /\ BuilderIdle
    /\ SinksIdle
    /\ \E name \in Loops : \E s \in SeqsUpTo(LoopBytes(name), MaxScan) : \E start \in 0..Len(s) :
          /\ Entered(name, s, start)
          /\ input = s
          /\ access = [op |-> name, index |-> start,
                       T |-> IF name = "deserialize_unsigned" THEN "u8"
                             ELSE IF name = "deserialize_signed" THEN "i8" ELSE ""]
          /\ result = [tag |-> "",
                       value |-> IF name \in {"deserialize_unsigned", "deserialize_signed"}
                                 THEN (s[start] - CH_ZERO) * loop_sign(name, s, start)
                                 ELSE 0,
                       n |-> start]
    /\ target = ""
    /\ pc = "looping"
    /\ buf = <<>>
    /\ current_length = 0
    /\ panicked = FALSE
    /\ op = [name |-> "none", arg |-> <<>>]
    /\ ret = [tag |-> "Ok", n |-> 0]

\* An iteration that goes on with the loop, and one that leaves it.
Continue(v, de) == [done |-> FALSE, r |-> DeOk(v, de)]

Return(r) == [done |-> TRUE, r |-> r]

\* Mutant: a byte that is no whitespace is skipped as well.
parse_whitespace_iteration_stalls(de) ==
    IF is_whitespace(peek(de)) THEN Continue(0, de)
    ELSE Return(DeOk(peek(de), de))

\* One iteration of the loop of parse_whitespace.
parse_whitespace_iteration(de) ==
    IF is_whitespace(peek(de)) THEN Continue(0, eat_char(de))
    ELSE Return(DeOk(peek(de), de))

\* One iteration of the loop of parse_str.
parse_str_iteration(de, start) ==
    IF peek(de) = NONE THEN Return(DeErr("EofWhileParsingString", de))
    ELSE IF peek(de) # CH_QUOTE THEN Continue(0, eat_char(de))
    ELSE IF leading_backslashes(de.slice, de.index, 0) = NONE THEN Return(DeErr("panic", de))
    ELSE IF is_escaped(de.slice, de.index) THEN Continue(0, eat_char(de))
    ELSE IF from_utf8_ok(Slice(de.slice, start, de.index))
         THEN Return(DeOk(0, eat_char(de)))
         ELSE Return(DeErr("InvalidUnicodeCodePoint", eat_char(de)))

\* One iteration of the digit loop of deserialize_unsigned! / deserialize_signed!.
digits_iteration(de, number, sign, ty) ==
    IF peek(de) = NONE \/ ~is_digit(peek(de)) THEN Return(DeOk(number, de))
    ELSE IF ~checked_mul(number, 10, ty).some
         THEN Return(DeErr("InvalidNumber", eat_char(de)))
    ELSE IF ~checked_add(checked_mul(number, 10, ty).v, (peek(de) - CH_ZERO) * sign, ty).some
         THEN Return(DeErr("InvalidNumber", eat_char(de)))
    ELSE Continue(checked_add(checked_mul(number, 10, ty).v, (peek(de) - CH_ZERO) * sign, ty).v,
                  eat_char(de))

\* b"0123456789+-.eE"
float_pattern == (48..57) \cup {CH_PLUS, CH_MINUS, 46, 101, 69}

RECURSIVE digit_run(_, _)
\* The number of digits of s from position i on.
digit_run(s, i) == IF i <= Len(s) /\ is_digit(s[i]) THEN 1 + digit_run(s, i + 1) ELSE 0

\* Whether f32::from_str accepts the text: a sign, digits with a point among
\* them, and an exponent of digits behind a sign.
from_str_ok(s) ==
    LET a == IF s # <<>> /\ s[1] \in {CH_PLUS, CH_MINUS} THEN 2 ELSE 1
        n1 == digit_run(s, a)
        dot == a + n1 <= Len(s) /\ s[a + n1] = 46
        n2 == IF dot THEN digit_run(s, a + n1 + 1) ELSE 0
        e == a + n1 + (IF dot THEN 1 + n2 ELSE 0)
        x == IF e + 1 <= Len(s) /\ s[e + 1] \in {CH_PLUS, CH_MINUS} THEN e + 2 ELSE e + 1
    IN /\ n1 + n2 >= 1
       /\ \/ e = Len(s) + 1
          \/ /\ e <= Len(s)
             /\ s[e] \in {101, 69}
             /\ digit_run(s, x) >= 1
             /\ x + digit_run(s, x) = Len(s) + 1

\* One iteration of the while loop of deserialize_fromstr!, and what follows
\* the loop when it is left.
fromstr_iteration(de, start) ==
    IF peek(de) # NONE /\ peek(de) \in float_pattern THEN Continue(0, eat_char(de))
    ELSE IF from_str_ok(Slice(de.slice, start, de.index)) THEN Return(DeOk(0, de))
    ELSE Return(DeErr("InvalidNumber", de))

\* One iteration of the loop of deserialize_ignored_any.
ignore_iteration(de) ==
    IF peek(de) = NONE THEN Return(DeErr("EofWhileParsingString", de))
    ELSE IF peek(de) \in {CH_COMMA, CH_RBRACE, CH_RBRACKET} THEN Return(DeOk(0, de))
    ELSE Continue(0, eat_char(de))

\* The iteration the loop of the state runs next.
iteration ==
    LET de == [slice |-> input, index |-> access.index]
    IN CASE access.op = "parse_whitespace" -> parse_whitespace_iteration(de)
         [] access.op = "parse_str" -> parse_str_iteration(de, result.n)
         [] access.op \in {"deserialize_unsigned", "deserialize_signed"} ->
               digits_iteration(de, result.value, loop_sign(access.op, input, result.n), access.T)
         [] access.op = "deserialize_fromstr" -> fromstr_iteration(de, result.n)
         [] access.op = "deserialize_ignored_any" -> ignore_iteration(de)

\* One iteration of the loop named.
Iterate(name) ==
    /\ pc = "looping"
    /\ access.op = name
    /\ access' = [access EXCEPT !.index = iteration.r.de.index]
    /\ result' = [tag |-> IF ~iteration.done THEN ""
                          ELSE IF iteration.r.ok THEN "Ok" ELSE iteration.r.err,
                  value |-> IF iteration.r.ok THEN iteration.r.v ELSE 0,
                  n |-> result.n]
    /\ pc' = IF iteration.done THEN "returned" ELSE "looping"
    /\ UNCHANGED <<input, target, ser_vars, str_vars, builder_vars, sinks>>

IterateWhitespace == Iterate("parse_whitespace")

IterateStr == Iterate("parse_str")

IterateUnsigned == Iterate("deserialize_unsigned")

IterateSigned == Iterate("deserialize_signed")

IterateFromStr == Iterate("deserialize_fromstr")

IterateIgnored == Iterate("deserialize_ignored_any")

LoopNext ==
    \/ IterateWhitespace
    \/ IterateStr
    \/ IterateUnsigned
    \/ IterateSigned
    \/ IterateFromStr
    \/ IterateIgnored

SpecLoop == LoopInit /\ [][LoopNext]_vars

\* The thread that runs the loop is never suspended for good.
SpecLoopFair == SpecLoop /\ WF_vars(LoopNext)

-----------------------------------------------------------------------------
(* The other fixed-buffer sinks: SliceSerializer (ser_backend.rs) and      *)
(* Slice (slice.rs), driven by the calls a Serializer over a buffer of     *)
(* the same capacity gets.                                                 *)

\* SliceSerializer::new
SliceSerializer_new(b) == [buf |-> b, current_length |-> 0, panicked |-> FALSE]

\* SliceSerializer::push; its push_unchecked is that of Serializer, word for word.
SliceSerializer_push(s, c) ==
    IF s.current_length < Len(s.buf)
    THEN [ok |-> TRUE, s |-> push_unchecked(s, c)]
    ELSE [ok |-> FALSE, s |-> s]

\* SliceSerializer::extend_from_slice
SliceSerializer_extend_from_slice(s, other) ==
    IF s.current_length + Len(other) > Len(s.buf)
    THEN [ok |-> FALSE, s |-> s]
    ELSE [ok |-> TRUE, s |-> push_each(s, other)]

\* Slice::new
Slice_new(b) == [buf |-> b, index |-> 0]

\* Slice::push
Slice_push(s, b) ==
    IF s.index >= Len(s.buf) THEN [ok |-> FALSE, s |-> s]
    ELSE [ok |-> TRUE,
          s |-> [buf |-> [s.buf EXCEPT ![s.index + 1] = b], index |-> s.index + 1]]

\* Slice::extend_from_slice
Slice_extend_from_slice(s, slice) ==
    IF s.index + Len(slice) >= Len(s.buf) THEN [ok |-> FALSE, s |-> s]
    ELSE [ok |-> TRUE,
          s |-> [buf |-> [k \in 1..Len(s.buf) |->
                             IF s.index < k /\ k <= s.index + Len(slice)
                             THEN slice[k - s.index] ELSE s.buf[k]],
                 index |-> s.index + Len(slice)]]

SinksInit ==
    /\ StrIdle
    /\ BuilderIdle
    /\ AccessIdle
    /\ \E cap \in 0..MaxSinkCap :
          /\ buf = zeroed(cap)
          /\ sinks = [backend |-> SliceSerializer_new(zeroed(cap)), backend_ok |-> TRUE,
                      slice |-> Slice_new(zeroed(cap)), slice_ok |-> TRUE]
    /\ current_length = 0
    /\ panicked = FALSE
    /\ op = [name |-> "new", arg |-> <<>>]
    /\ ret = [tag |-> "Ok", n |-> 0]
    /\ input = <<>>
    /\ target = ""
    /\ result = NoResult
    /\ pc = "sinks"

\* push(c) on the three sinks.
PushAll(c) ==
    /\ pc = "sinks"
    /\ op' = [name |-> "push", arg |-> <<c>>]
    /\ ser_return(push(ser_state, c))
    /\ sinks' = [backend |-> SliceSerializer_push(sinks.backend, c).s,
                 backend_ok |-> SliceSerializer_push(sinks.backend, c).ok,
                 slice |-> Slice_push(sinks.slice, c).s,
                 slice_ok |-> Slice_push(sinks.slice, c).ok]
    /\ UNCHANGED <<de_vars, str_vars, builder_vars, access>>

\* extend_from_slice(other) on the three sinks.
ExtendAll(other) ==
    /\ pc = "sinks"
    /\ op' = [name |-> "extend_from_slice", arg |-> other]
    /\ ser_return(extend_from_slice(ser_state, other))
    /\ sinks' = [backend |-> SliceSerializer_extend_from_slice(sinks.backend, other).s,
                 backend_ok |-> SliceSerializer_extend_from_slice(sinks.backend, other).ok,
                 slice |-> Slice_extend_from_slice(sinks.slice, other).s,
                 slice_ok |-> Slice_extend_from_slice(sinks.slice, other).ok]
    /\ UNCHANGED <<de_vars, str_vars, builder_vars, access>>

SinksNext ==
    \/ \E c \in SinkBytes : PushAll(c)
    \/ \E other \in SeqsUpTo(SinkBytes, MaxRun) : ExtendAll(other)

SpecSinks == SinksInit /\ [][SinksNext]_vars


-----------------------------------------------------------------------------
(* Claims about the writer. *)


\* The compact JSON rendering of a value: what the writer produces when the
\* capacity is no constraint.
Rendering(value) ==
    LET r == to_slice(value, zeroed(AmpleCap)) IN Slice(r.s.buf, 0, r.s.current_length)

\* C2: to_slice returns Ok(n) exactly when the rendering of the value is no
\* longer than the buffer, and then n is the rendering's length and buf[..n]
\* the rendering; a longer rendering returns BufferFull.  After any sequence
\* of writes current_length <= buf.len() and no write went out of bounds.
C2_ToSliceFitsOrBufferFull ==
    /\ ~panicked
    /\ current_length <= Len(buf)
    /\ op.name = "to_slice" =>
          LET rendering == Rendering(op.arg)
          IN IF Len(rendering) <= Len(buf)
             THEN /\ ret.tag = "Ok"
                  /\ ret.n = Len(rendering)
                  /\ Slice(buf, 0, ret.n) = rendering
             ELSE ret.tag = "BufferFull"

\* A rendering of several bytes that exactly fills the buffer was accepted.
C2_Witness ==
    /\ op.name = "to_slice"
    /\ ret.tag = "Ok"
    /\ ret.n = Len(buf)
    /\ Len(buf) > 4

\* C3: extend_from_slice is all-or-nothing.  When the run does not fit it
\* returns BufferFull and leaves the buffer and current_length as they were;
\* otherwise it appends the run in order, advances current_length by its
\* length and leaves the bytes below the old current_length unchanged.
C3_ExtendAllOrNothing ==
    [][op'.name = "extend_from_slice" =>
          LET other == op'.arg
          IN IF current_length + Len(other) > Len(buf)
             THEN /\ ret'.tag = "BufferFull"
                  /\ buf' = buf
                  /\ current_length' = current_length
             ELSE /\ ret'.tag = "Ok"
                  /\ Len(buf') = Len(buf)
                  /\ current_length' = current_length + Len(other)
                  /\ Slice(buf', current_length, current_length') = other
                  /\ Slice(buf', 0, current_length) = Slice(buf, 0, current_length)]_vars

\* A run was refused although a part of it would have fitted.
C3_Witness ==
    /\ op.name = "extend_from_slice"
    /\ ret.tag = "BufferFull"
    /\ current_length > 0
    /\ current_length < Len(buf)
    /\ Len(op.arg) > 1

\* The sixteen upper-case hex digits, "0123456789ABCDEF".
C10_HexUpper == <<48, 49, 50, 51, 52, 53, 54, 55, 56, 57, 65, 66, 67, 68, 69, 70>>

\* The UTF-8 encodings of the characters of the model, as tabulated by the
\* Unicode standard.
C10_Utf8(c) ==
    CASE c < 128 -> <<c>>
      [] c = 233 -> <<195, 169>>
      [] c = 8364 -> <<226, 130, 172>>
      [] c = 128079 -> <<240, 159, 145, 143>>

\* The rendering the claim gives for one character.
C10_Class(c) ==
    IF c = 92 THEN <<92, 92>>
    ELSE IF c = 34 THEN <<92, 34>>
    ELSE IF c = 8 THEN <<92, 98>>
    ELSE IF c = 9 THEN <<92, 116>>
    ELSE IF c = 10 THEN <<92, 110>>
    ELSE IF c = 12 THEN <<92, 102>>
    ELSE IF c = 13 THEN <<92, 114>>
    ELSE IF c <= 31
         THEN <<92, 117, 48, 48, C10_HexUpper[(c \div 16) + 1], C10_HexUpper[(c % 16) + 1]>>
    ELSE C10_Utf8(c)

\* C10: serialize_str renders a string as a quote, the rendering of each
\* character by its class (two-character escapes for \ and " and for
\* U+0008, U+0009, U+000A, U+000C, U+000D; \u00XX in upper-case hex for the
\* other characters below U+0020; every other character verbatim), a quote.
C10_StrClassified ==
    (op.name = "to_slice" /\ op.arg.t = "str" /\ ret.tag = "Ok") =>
        Slice(buf, 0, ret.n) =
            <<34>> \o Concat([k \in 1..Len(op.arg.v) |-> C10_Class(op.arg.v[k])]) \o <<34>>

\* A string with a \u00XX escape whose hex digit is a letter, followed by a
\* 4-byte character, was rendered.
C10_Witness ==
    /\ op.name = "to_slice"
    /\ op.arg.t = "str"
    /\ ret.tag = "Ok"
    /\ op.arg.v = <<31, 128079>>

-----------------------------------------------------------------------------
(* Claims about the round trip. *)

\* C1: for every integer type and every value v of it, to_slice(v) into a
\* buffer of sufficient capacity writes n bytes, and from_slice of exactly
\* those n bytes into the same type returns (v, n).
C1_IntegerRoundTrip ==
    /\ pc = "encoded" => ret.tag = "Ok" /\ ret.n = current_length /\ ret.n >= 1
    /\ pc = "decoded" =>
          /\ input = Slice(buf, 0, ret.n)
          /\ result.tag = "Ok"
          /\ result.value = op.arg.v
          /\ result.n = ret.n

\* The least 16-bit signed value came back from its six bytes.
C1_Witness ==
    /\ pc = "decoded"
    /\ op.arg = VInt("i16", 0 - 32768)
    /\ result = [tag |-> "Ok", value |-> 0 - 32768, n |-> 6]

-----------------------------------------------------------------------------
(* Claims about the reader. *)

\* The bytes the claims call whitespace: space, tab, CR, LF.
JsonWhitespace == {32, 9, 13, 10}

\* C4: after the top-level value is decoded, from_slice succeeds if and only
\* if every remaining byte of the input is a space, tab, CR or LF (or none
\* remain); if any other byte remains it returns TrailingCharacters.
C4_TrailingBytes ==
    pc = "returned" =>
        LET decoded == deserialize(Deserializer_new(input), target)
        IN decoded.ok =>
              IF \A k \in (decoded.de.index + 1)..Len(input) : input[k] \in JsonWhitespace
              THEN /\ result.tag = "Ok"
                   /\ result.value = decoded.v
              ELSE /\ result.tag = "TrailingCharacters"

\* `true`, a space and a letter were refused as a bool.
C4_Witness ==
    /\ pc = "returned"
    /\ target = "bool"
    /\ input = STR_true \o <<32, 102>>
    /\ result.tag = "TrailingCharacters"

RECURSIVE LeadLen(_)
\* The number of whitespace bytes an input starts with.
LeadLen(s) == IF s # <<>> /\ Head(s) \in JsonWhitespace THEN 1 + LeadLen(Tail(s)) ELSE 0

RECURSIVE TailLen(_)
\* The number of whitespace bytes an input ends with.
TailLen(s) ==
    IF s # <<>> /\ s[Len(s)] \in JsonWhitespace THEN 1 + TailLen(SubSeq(s, 1, Len(s) - 1)) ELSE 0

\* An input without the whitespace around it.
Unpadded(s) == LET l == LeadLen(s) IN SubSeq(s, l + 1, Len(s) - TailLen(SubSeq(s, l + 1, Len(s))))

\* The input is a value text with whitespace in front of it or behind it.
IsPadded == Unpadded(input) # input /\ from_slice(Unpadded(input), target).tag = "Ok"

\* C5 as stated: decoding a value surrounded by whitespace yields the same
\* value as decoding it alone, and bytes_consumed is the span up to the end
\* of the value, not the whole padded input.
C5_ConsumedSpanOnly ==
    (pc = "returned" /\ IsPadded) =>
        LET alone == from_slice(Unpadded(input), target)
        IN /\ result.tag = "Ok"
           /\ result.value = alone.value
           /\ result.n = LeadLen(input) + alone.n

\* C5, amended: decoding a value surrounded by runs of space, tab, LF and CR
\* yields the same value as decoding it alone, and bytes_consumed is the
\* length of the whole padded input, trailing whitespace included.
C5_PaddedSameValue ==
    (pc = "returned" /\ IsPadded) =>
        LET alone == from_slice(Unpadded(input), target)
        IN /\ result.tag = "Ok"
           /\ result.value = alone.value
           /\ alone.n = Len(Unpadded(input))
           /\ result.n = Len(input)

\* `true` between a CR and a tab and LF was read, consuming all seven bytes.
C5_Witness ==
    /\ pc = "returned"
    /\ target = "bool"
    /\ input = <<13>> \o STR_true \o <<9, 10>>
    /\ result = [tag |-> "Ok", value |-> TRUE, n |-> 7]

\* The input is a non-empty string of decimal digits.
IsDigits(s) == s # <<>> /\ \A k \in 1..Len(s) : 48 <= s[k] /\ s[k] <= 57

RECURSIVE NumericValue(_)
\* The number a string of decimal digits denotes.
NumericValue(s) ==
    IF s = <<>> THEN 0 ELSE 10 * NumericValue(SubSeq(s, 1, Len(s) - 1)) + (s[Len(s)] - 48)

\* C6: a decimal digit string whose first digit is 1-9 decodes into an
\* unsigned target of width w with its numeric value if and only if that
\* value is <= 2^w - 1, and otherwise fails with InvalidNumber; no
\* accumulator wraps.
C6_UnsignedBoundary ==
    (pc = "returned" /\ target \in {"u8", "u16"} /\ IsDigits(input) /\ input[1] # 48) =>
        IF NumericValue(input) <= Pow2(bits(target)) - 1
        THEN result = [tag |-> "Ok", value |-> NumericValue(input), n |-> Len(input)]
        ELSE result.tag = "InvalidNumber"

\* `256` was refused as a u8.
C6_Witness ==
    /\ pc = "returned"
    /\ target = "u8"
    /\ input = <<50, 53, 54>>
    /\ result.tag = "InvalidNumber"

\* The digits of an optionally `-`-prefixed text.
SignedDigits(s) == IF s # <<>> /\ s[1] = 45 THEN Tail(s) ELSE s

\* The number an optionally `-`-prefixed digit string denotes.
SignedValue(s) ==
    IF s[1] = 45 THEN 0 - NumericValue(SignedDigits(s)) ELSE NumericValue(SignedDigits(s))

\* What the claim says of a signed target: in range succeeds, out of range
\* is InvalidNumber.
SignedRangeOutcome ==
    IF /\ 0 - Pow2(bits(target) - 1) <= SignedValue(input)
       /\ SignedValue(input) <= Pow2(bits(target) - 1) - 1
    THEN result = [tag |-> "Ok", value |-> SignedValue(input), n |-> Len(input)]
    ELSE result.tag = "InvalidNumber"

\* C7 as stated: every optionally `-`-prefixed digit string decodes into a
\* signed target of width w exactly when its value is in
\* [-2^(w-1), 2^(w-1)-1], and otherwise fails with InvalidNumber.
C7_SignedRangeAnyDigits ==
    (pc = "returned" /\ target \in {"i8", "i16"} /\ IsDigits(SignedDigits(input))) =>
        SignedRangeOutcome

\* C7, amended: an optionally `-`-prefixed digit string that is `0` or starts
\* with a digit 1-9 decodes into a signed target of width w, with its value,
\* exactly when the value is in [-2^(w-1), 2^(w-1)-1], and otherwise fails
\* with InvalidNumber; `-0` decodes to 0.
C7_SignedRange ==
    (/\ pc = "returned"
     /\ target \in {"i8", "i16"}
     /\ IsDigits(SignedDigits(input))
     /\ (SignedDigits(input) = <<48>> \/ SignedDigits(input)[1] # 48)) =>
        SignedRangeOutcome

\* `-128` was read as the i8 -128.
C7_Witness ==
    /\ pc = "returned"
    /\ target = "i8"
    /\ input = <<45, 49, 50, 56>>
    /\ result = [tag |-> "Ok", value |-> 0 - 128, n |-> 4]

\* The position of the last byte of s that is no whitespace, 0 if none.
LastSolid(s) == Len(s) - TailLen(s)

\* The input ends, whitespace aside, with a comma and a closing bracket.
HasTrailingComma(s) ==
    LET close == LastSolid(s)
    IN /\ close >= 2
       /\ s[close] = 93
       /\ LastSolid(SubSeq(s, 1, close - 1)) >= 1
       /\ s[LastSolid(SubSeq(s, 1, close - 1))] = 44

\* The input without the comma in front of its closing bracket.
SansTrailingComma(s) ==
    LET comma == LastSolid(SubSeq(s, 1, LastSolid(s) - 1))
    IN SubSeq(s, 1, comma - 1) \o SubSeq(s, comma + 1, Len(s))

\* C8: an array whose last element is followed by a comma and then `]` fails
\* with TrailingComma, whether the comma is met by next_element_seed or by
\* end_seq after the visitor has taken its elements; the same array without
\* the comma succeeds.
C8_TrailingComma ==
    (/\ pc = "returned"
     /\ target \in ArrayTargets \cup VecTargets
     /\ HasTrailingComma(input)
     /\ from_slice(SansTrailingComma(input), target).tag = "Ok"
     /\ from_slice(SansTrailingComma(input), target).value # <<>>) =>
        result.tag = "TrailingComma"

\* `[1,1,]` was refused as a 2-element array: its visitor took both elements
\* and end_seq met the comma.
C8_Witness ==
    /\ pc = "returned"
    /\ target = "[u8;2]"
    /\ input = <<91, 49, 44, 49, 44, 93>>
    /\ result.tag = "TrailingComma"
    /\ from_slice(<<91, 49, 44, 49, 93>>, target).tag = "Ok"

\* The bytes of a string input after its opening quote.
Body(s) == SubSeq(s, LeadLen(s) + 2, Len(s))

\* The number of consecutive backslashes right in front of position k of b.
BackslashRun(b, k) ==
    CHOOSE j \in 0..(k - 1) :
        /\ \A i \in 1..j : b[k - i] = 92
        /\ j = k - 1 \/ b[k - j - 1] # 92

\* The positions of the quotes of b behind an even number of backslashes.
Closing(b) == {k \in 1..Len(b) : b[k] = 34 /\ BackslashRun(b, k) % 2 = 0}

Least(S) == CHOOSE k \in S : \A j \in S : k <= j

\* The input is whitespace, an opening quote, and more.
IsStringInput == LeadLen(input) < Len(input) /\ input[LeadLen(input) + 1] = 34

\* parse_str as from_slice calls it: the cursor just past the opening quote.
ParsedStr == parse_str([slice |-> input, index |-> LeadLen(input) + 1])

\* C9 as stated: after the opening quote parse_str returns exactly the bytes
\* up to the first quote behind an even number of backslashes, escapes
\* intact, and leaves the cursor one byte past that quote; if the input ends
\* first it fails with EofWhileParsingString.
C9_SliceToClosingQuote ==
    (pc = "returned" /\ target = "str" /\ IsStringInput) =>
        IF Closing(Body(input)) = {}
        THEN /\ ~ParsedStr.ok /\ ParsedStr.err = "EofWhileParsingString"
             /\ result.tag = "EofWhileParsingString"
        ELSE LET k == Least(Closing(Body(input)))
             IN /\ ParsedStr.ok
                /\ ParsedStr.v = SubSeq(Body(input), 1, k - 1)
                /\ ParsedStr.de.index = LeadLen(input) + 1 + k

\* C9, amended: the same, provided the bytes up to that quote are valid
\* UTF-8; when they are not, parse_str fails with InvalidUnicodeCodePoint,
\* the cursor again one byte past the quote.
C9_SliceToClosingQuoteUtf8 ==
    (pc = "returned" /\ target = "str" /\ IsStringInput) =>
        IF Closing(Body(input)) = {}
        THEN /\ ~ParsedStr.ok /\ ParsedStr.err = "EofWhileParsingString"
             /\ result.tag = "EofWhileParsingString"
        ELSE LET k == Least(Closing(Body(input)))
                 rest == SubSeq(Body(input), k + 1, Len(Body(input)))
             IN /\ ParsedStr.de.index = LeadLen(input) + 1 + k
                /\ IF from_utf8_ok(SubSeq(Body(input), 1, k - 1))
                   THEN /\ ParsedStr.ok
                        /\ ParsedStr.v = SubSeq(Body(input), 1, k - 1)
                        /\ TailLen(rest) = Len(rest) =>
                              result = [tag |-> "Ok", value |-> ParsedStr.v, n |-> Len(input)]
                   ELSE /\ ~ParsedStr.ok /\ ParsedStr.err = "InvalidUnicodeCodePoint"
                        /\ result.tag = "InvalidUnicodeCodePoint"

\* An escaped quote did not end the string; the quote behind two backslashes
\* did.
C9_Witness ==
    /\ pc = "returned"
    /\ target = "str"
    /\ input = <<34, 92, 34, 92, 92, 34>>
    /\ result = [tag |-> "Ok", value |-> <<92, 34, 92, 92>>, n |-> 6]

\* What deserialize returns for the input of the state, before end() is called.
Decoded == deserialize(Deserializer_new(input), target)

\* C18: during a decode, error paths included, 0 <= index <= slice.len(),
\* index never decreases, and the input bytes are never modified.
C18_CursorInBounds ==
    pc = "returned" =>
        LET after == end(Decoded.de)
        IN /\ Decoded.de.slice = input
           /\ 0 <= Decoded.de.index /\ Decoded.de.index <= Len(input)
           /\ Decoded.ok =>
                 /\ after.de.slice = input
                 /\ Decoded.de.index <= after.de.index
                 /\ after.de.index <= Len(input)

\* `tru` was refused as a bool with the cursor at the end of the input.
C18_Witness ==
    /\ pc = "returned"
    /\ target = "bool"
    /\ input = <<116, 114, 117>>
    /\ result.tag = "ExpectedSomeIdent"
    /\ Decoded.de.index = 3

\* C19: whenever from_slice returns Ok((value, n)), n is the full length of
\* the input, trailing whitespace included.
C19_ConsumedIsInputLength ==
    (pc = "returned" /\ result.tag = "Ok") => result.n = Len(input)

\* `true` and a space were read as (true, 5).
C19_Witness ==
    /\ pc = "returned"
    /\ input = STR_true \o <<32>>
    /\ result = [tag |-> "Ok", value |-> TRUE, n |-> 5]

\* The first byte of the input behind its leading whitespace, NONE if none.
FirstSolid(s) == IF LeadLen(s) < Len(s) THEN s[LeadLen(s) + 1] ELSE NONE

\* C20: into an unsigned target a leading `-` fails with InvalidNumber; a
\* leading `0` yields 0 and consumes that one byte, a following digit is left
\* unconsumed; any other first byte that is no digit fails with InvalidType;
\* empty or all-whitespace input fails with EofWhileParsingValue.
C20_UnsignedProduction ==
    (pc = "returned" /\ target \in {"u8", "u16"}) =>
        LET first == FirstSolid(input)
        IN /\ first = NONE => ~Decoded.ok /\ result.tag = "EofWhileParsingValue"
           /\ first = 45 => ~Decoded.ok /\ result.tag = "InvalidNumber"
           /\ first = 48 =>
                 /\ Decoded.ok
                 /\ Decoded.v = 0
                 /\ Decoded.de.index = LeadLen(input) + 1
                 /\ (Len(input) > LeadLen(input) + 1 /\ input[LeadLen(input) + 2] \in 48..57) =>
                       result.tag = "TrailingCharacters"
           /\ (first # NONE /\ first # 45 /\ first \notin 48..57) =>
                 ~Decoded.ok /\ result.tag = "InvalidType"

\* `01` into u8: the zero was read, the `1` was left and refused by end().
C20_Witness ==
    /\ pc = "returned"
    /\ target = "u8"
    /\ input = <<48, 49>>
    /\ Decoded.ok /\ Decoded.v = 0 /\ Decoded.de.index = 1
    /\ result.tag = "TrailingCharacters"

-----------------------------------------------------------------------------
(* Claims about escaped strings. *)

\* The UTF-8 bytes of the characters a yielded fragment stands for.
FragmentUtf8(item) ==
    IF item.kind = "NotEscaped" THEN item.text ELSE encode_utf8(item.c)

RECURSIVE Unescaped(_)
\* The characters of the fragments, in order, as UTF-8.
Unescaped(items) ==
    IF items = <<>> THEN <<>>
    ELSE FragmentUtf8(Head(items)) \o Unescaped(Tail(items))

RECURSIVE Utf8(_)
\* The UTF-8 bytes of a string given by its characters.
Utf8(cs) == IF cs = <<>> THEN <<>> ELSE C10_Utf8(Head(cs)) \o Utf8(Tail(cs))

\* Whether the iterator of the state runs over what serialize_str wrote.
OverWritten == op.name = "to_slice" /\ pc \in {"iterating", "exhausted", "failed"}

\* C11: for every string s, the fragments of the bytes serialize_str writes
\* between the quotes are no errors and their characters, concatenated in
\* order, are s.
C11_EscapeRoundTrip ==
    OverWritten =>
        /\ pc # "failed"
        /\ \A i \in 1..Len(fragments) : fragments[i].ok
        /\ pc = "exhausted" => Unescaped(fragments) = Utf8(op.arg.v)

\* U+001F and e-acute were written as `\u001F` and two bytes, and read back
\* as the escaped character and the text.
C11_Witness ==
    /\ OverWritten
    /\ pc = "exhausted"
    /\ op.arg.v = <<31, 233>>
    /\ span = <<92, 117, 48, 48, 49, 70, 195, 169>>
    /\ Len(fragments) = 2
    /\ fragments[1].kind = "Escaped" /\ fragments[1].c = 31
    /\ fragments[2].kind = "NotEscaped" /\ fragments[2].text = <<195, 169>>

\* The text the iterator stood at when it yielded item i, and what it consumed.
Before(i) == IF i = 1 THEN span ELSE fragments[i - 1].rest

Consumed(i) == SubSeq(Before(i), 1, Len(Before(i)) - Len(fragments[i].rest))

HexDigits == (48..57) \cup (65..70) \cup (97..102)

HexDigit(b) == IF b <= 57 THEN b - 48 ELSE IF b <= 70 THEN b - 55 ELSE b - 87

\* The characters of the two-byte escapes, by the byte behind the backslash.
ShortEscape(b) ==
    CASE b = 34 -> 34 [] b = 92 -> 92 [] b = 47 -> 47 [] b = 98 -> 8
      [] b = 102 -> 12 [] b = 110 -> 10 [] b = 114 -> 13 [] b = 116 -> 9

ShortEscapes == {34, 92, 47, 98, 102, 110, 114, 116}

\* Whether the bytes are one escape sequence of JSON that stands for c.
IsEscapeOf(bytes, c) ==
    \/ /\ Len(bytes) = 2
       /\ bytes[1] = 92
       /\ bytes[2] \in ShortEscapes
       /\ c = ShortEscape(bytes[2])
    \/ /\ Len(bytes) = 6
       /\ bytes[1] = 92
       /\ bytes[2] = 117
       /\ \A k \in 3..6 : bytes[k] \in HexDigits
       /\ c = 4096 * HexDigit(bytes[3]) + 256 * HexDigit(bytes[4])
              + 16 * HexDigit(bytes[5]) + HexDigit(bytes[6])

\* The same, a `+` and three hex digits behind `\u` admitted.
IsSignedEscapeOf(bytes, c) ==
    \/ IsEscapeOf(bytes, c)
    \/ /\ Len(bytes) = 6
       /\ bytes[1] = 92
       /\ bytes[2] = 117
       /\ bytes[3] = 43
       /\ \A k \in 4..6 : bytes[k] \in HexDigits
       /\ c = 256 * HexDigit(bytes[4]) + 16 * HexDigit(bytes[5]) + HexDigit(bytes[6])

\* The parts of the fragment shape that concern plain text and errors.
TextAndErrorShape(i) ==
    LET f == fragments[i]
    IN /\ f.kind = "NotEscaped" =>
             /\ f.text # <<>>
             /\ \A k \in 1..Len(f.text) : f.text[k] # 92
             /\ Consumed(i) = f.text
             /\ f.rest = <<>> \/ f.rest[1] = 92
             /\ i > 1 => fragments[i - 1].kind # "NotEscaped"
       /\ (/\ Before(i)[1] = 92
           /\ Len(Before(i)) = 1 \/ Before(i)[2] \notin (ShortEscapes \cup {117})) =>
             f.kind = "InvalidEscapeSequence"

\* C12: every fragment is NotEscaped(t) with t non-empty, free of backslashes
\* and maximal, or Escaped(c) with c decoded from exactly one escape among
\* the eight two-byte escapes and `\uXXXX` of four hex digits; a backslash
\* followed by any other character or by the end yields InvalidEscapeSequence.
C12_FragmentShape ==
    pc \in {"iterating", "exhausted", "failed"} =>
        \A i \in 1..Len(fragments) :
            /\ TextAndErrorShape(i)
            /\ fragments[i].kind = "Escaped" => IsEscapeOf(Consumed(i), fragments[i].c)

\* The shape the iterator has: as C12, with `\u+XXX` decoded as well.
C12_FragmentShapeSigned ==
    pc \in {"iterating", "exhausted", "failed"} =>
        \A i \in 1..Len(fragments) :
            /\ TextAndErrorShape(i)
            /\ fragments[i].kind = "Escaped" => IsSignedEscapeOf(Consumed(i), fragments[i].c)

\* `\u+041` was yielded as the escaped character A.
C12_Witness ==
    /\ span = <<92, 117, 43, 48, 52, 49>>
    /\ pc = "exhausted"
    /\ fragments = <<Escaped(65, <<>>)>>

-----------------------------------------------------------------------------
(* Claims about the container builders. *)

\* What the builder's opening call and its end() write.
Opener(kind) ==
    CASE kind = "seq" -> <<91>>
      [] kind \in {"map", "struct"} -> <<123>>
      [] kind = "struct_variant" -> <<123, 34>> \o VariantName \o <<34, 58, 123>>

Closer(kind) ==
    CASE kind = "seq" -> <<93>>
      [] kind \in {"map", "struct"} -> <<125>>
      [] kind = "struct_variant" -> <<125, 125>>

\* A key as a JSON string: a string key as the writer renders strings, any
\* other key between two quotes.
QuotedKey(kind, key) ==
    IF kind \in {"struct", "struct_variant"} THEN <<34>> \o key \o <<34>>
    ELSE IF key.t = "str" THEN Rendering(key)
    ELSE <<34>> \o Rendering(key) \o <<34>>

\* A key as SerializeMap hands it to the serializer.
WrittenKey(kind, key) ==
    IF kind = "map" THEN Rendering(key) ELSE QuotedKey(kind, key)

\* One child as the claim renders it: the value, behind `"key":` in a struct,
\* a struct variant or a map.
ChildText(kind, child, quoted) ==
    IF kind = "seq" THEN Rendering(child[2])
    ELSE (IF quoted THEN QuotedKey(kind, child[1]) ELSE WrittenKey(kind, child[1]))
         \o <<58>> \o Rendering(child[2])

RECURSIVE Joined(_, _, _)
\* The children with a `,` in front of each but the first.
Joined(kind, items, quoted) ==
    IF items = <<>> THEN <<>>
    ELSE IF Len(items) = 1 THEN ChildText(kind, items[1], quoted)
    ELSE Joined(kind, SubSeq(items, 1, Len(items) - 1), quoted)
         \o <<44>> \o ChildText(kind, items[Len(items)], quoted)

Ended == pc = "ended" /\ ret.tag = "Ok"

\* C16: for every builder, after the opener and k >= 0 child writes followed
\* by end(), the output is the opener, the k rendered children with a `,` in
\* front of each but the first, and the closer; struct and map entries have
\* the form `"key":value`.
C16_ContainerSeparators ==
    Ended =>
        Slice(buf, 0, current_length)
            = Opener(builder.kind) \o Joined(builder.kind, children, TRUE) \o Closer(builder.kind)

\* The same, a map's key being whatever the serializer writes for the key.
C16_ContainerSeparatorsKeyAsWritten ==
    Ended =>
        Slice(buf, 0, current_length)
            = Opener(builder.kind) \o Joined(builder.kind, children, FALSE) \o Closer(builder.kind)

\* A map of the one entry 1 => true was written as `{1:true}`.
C16_Witness ==
    /\ Ended
    /\ builder.kind = "map"
    /\ Len(children) = 1
    /\ children[1][1].t = "u8" /\ children[1][1].v = 1
    /\ children[1][2].t = "bool"
    /\ Slice(buf, 0, current_length) = <<123, 49, 58>> \o STR_true \o <<125>>

-----------------------------------------------------------------------------
(* Claims about enums. *)

\* from_slice::<T> of the text has returned Ok((value, n)) with the variant A
\* and the payload.
ReturnedA(T, text, payload, n) ==
    (pc # "start" /\ target = T /\ input = text) =>
        /\ result.tag = "Ok"
        /\ result.n = n
        /\ result.value.variant = <<65>>
        /\ result.value.v = payload

\* C13: `{"A":54}` decodes into the enum with the newtype variant A as
\* (A(54), 8), and `{"A": {"x":54,"y":720 } }` into the enum with the struct
\* variant A{x,y} as (A{x:54,y:720}, 25): the enclosing `}` of the variant
\* object is consumed exactly once behind the payload.
C13_EnumObjectForm ==
    /\ ReturnedA("enum A(u16)", TextA54, 54, 8)
    /\ ReturnedA("enum A{x,y}", TextAxySpaced, <<54, 720>>, 25)

\* C13, the case of the newtype variant: from_slice has returned from
\* `{"A":54}`.
C13_Witness ==
    /\ pc = "returned"
    /\ target = "enum A(u16)"
    /\ input = TextA54
    /\ result.tag = "EofWhileParsingValue"

\* C13, as the code has it: the variant access takes the `}` behind the
\* payload and deserialize_enum asks for another one, so the two texts are
\* Ok only with one more `}` behind them.
C13_EnumObjectFormSecondBrace ==
    /\ ReturnedA("enum A(u16)", TextA54 \o <<125>>, 54, 9)
    /\ ReturnedA("enum A{x,y}", TextAxySpaced \o <<32, 125>>, <<54, 720>>, 27)
    /\ (pc # "start" /\ target = "enum A(u16)" /\ input = TextA54)
           => result.tag = "EofWhileParsingValue"
    /\ (pc # "start" /\ target = "enum A{x,y}" /\ input = TextAxySpaced)
           => result.tag = "EofWhileParsingValue"

\* The text of an enum value: the quoted name of a unit variant,
\* `{"Variant":payload}` of a newtype variant, `{"Variant":{"x":v1,"y":v2}}`
\* of a struct variant.
EnumForm(T, value) ==
    LET quoted == <<34>> \o value.variant \o <<34>>
    IN CASE T = "enum E" -> quoted
         [] T = "enum A(u16)" -> <<123>> \o quoted \o <<58>> \o Decimal(value.v) \o <<125>>
         [] T = "enum A{x,y}" ->
               <<123>> \o quoted \o <<58, 123, 34, 120, 34, 58>> \o Decimal(value.v[1])
                   \o <<44, 34, 121, 34, 58>> \o Decimal(value.v[2]) \o <<125, 125>>

\* to_slice of a decoded enum value succeeded with the text of its form.
EncodedForms ==
    pc = "encoded" =>
        /\ ret.tag = "Ok"
        /\ Slice(buf, 0, ret.n) = EnumForm(target, result.value)

\* The three texts of the round trip, each with the enum it is decoded into.
RoundTripTexts ==
    {<<"enum E", TextThing>>, <<"enum A(u16)", TextA54>>, <<"enum A{x,y}", TextAxy>>}

\* C14: a unit variant renders as the quoted variant name, a newtype variant
\* as `{"Variant":payload}` and a struct variant as
\* `{"Variant":{"f1":v1,...,"fk":vk}}` with balanced braces; `"Thing"`,
\* `{"A":54}` and `{"A":{"x":54,"y":720}}` decode into a value, and encoding
\* that value reproduces the identical text.
C14_EnumRoundTrip ==
    /\ EncodedForms
    /\ (pc # "start" /\ <<target, input>> \in RoundTripTexts) => result.tag = "Ok"
    /\ (pc = "encoded" /\ <<target, input>> \in RoundTripTexts)
           => Slice(buf, 0, ret.n) = input

\* C14, the case of the newtype variant: from_slice of `{"A":54}` returned no
\* value to encode.
C14_Witness ==
    /\ pc = "returned"
    /\ <<target, input>> = <<"enum A(u16)", TextA54>>
    /\ result.tag # "Ok"

\* C14, as the code has it: the forms of the three kinds of variant are those
\* of the claim, and a text of the round trip that decodes is reproduced.
C14_EnumFormsOfDecoded ==
    /\ EncodedForms
    /\ (pc = "encoded" /\ <<target, input>> \in RoundTripTexts)
           => Slice(buf, 0, ret.n) = input

\* The input behind the cursor a variant operation started at, without the
\* whitespace in front.
Payload ==
    LET behind_cursor == SubSeq(input, access.index + 1, Len(input))
    IN SubSeq(behind_cursor, LeadLen(behind_cursor) + 1, Len(behind_cursor))

\* Text is the front of the payload.
PayloadStarts(text) ==
    Len(text) <= Len(Payload) /\ SubSeq(Payload, 1, Len(text)) = text

\* The operation took a closing brace last.
TookBrace == result.de.index > access.index /\ input[result.de.index] = CH_RBRACE

\* newtype_variant reads a bare value: it is Ok exactly on a number of the
\* type asked for with `}` behind it, and returns that number.
BareValue ==
    (pc = "consumed" /\ access.op = "newtype_variant_seed") =>
        /\ result.ok => (PayloadStarts(Decimal(result.v)) /\ TookBrace)
        /\ \A n \in {1, 54, 300} :
               (PayloadStarts(Decimal(n) \o <<CH_RBRACE>>) /\ (access.T = "u8" => n < 256))
                   => (result.ok /\ result.v = n)

\* struct_variant reads a nested object: it is Ok exactly on the object of the
\* fields x and y with `}` behind it, and returns their values.
NestedObject ==
    (pc = "consumed" /\ access.op = "struct_variant") =>
        /\ result.ok => (PayloadStarts(<<CH_LBRACE>>) /\ Len(result.v) = 2 /\ TookBrace)
        /\ (PayloadStarts(SubSeq(TextAxy, 6, 22)) \/ PayloadStarts(SubSeq(TextAxySpaced, 7, 25)))
               => (result.ok /\ result.v = <<54, 720>>)

\* C15: for an enum in the object form `{"Variant": payload}` the payload is
\* decoded by the operation the caller invokes: a bare value by
\* newtype_variant, a nested array by tuple_variant, a nested object by
\* struct_variant.
C15_PayloadByOperation ==
    /\ BareValue
    /\ NestedObject
    /\ (pc = "consumed" /\ access.op = "tuple_variant" /\ PayloadStarts(SubSeq(TextT12, 6, 11)))
           => (result.ok /\ result.v = <<1, 2>>)

\* C15, amended: a bare value by newtype_variant and a nested object by
\* struct_variant, each with the closing `}` behind it, which the operation
\* takes; tuple_variant, like unit_variant, is refused with InvalidType
\* whatever the payload, and reads nothing.
C15_PayloadByOperationNoTuple ==
    /\ BareValue
    /\ NestedObject
    /\ (pc = "consumed" /\ access.op \in {"tuple_variant", "unit_variant"})
           => (~result.ok /\ result.err = "InvalidType" /\ result.de.index = access.index)

\* C15, the case of the tuple: tuple_variant was invoked on the payload
\* `[1,2]}` of `{"T":[1,2]}`.
C15_Witness ==
    /\ pc = "consumed"
    /\ target = "enum E"
    /\ input = TextT12
    /\ access.op = "tuple_variant"
    /\ result.err = "InvalidType"

-----------------------------------------------------------------------------
(* Claims about values ignored. *)

\* The well-formed values of the inputs.
WellFormed == Nested(MaxDepth)

\* `{"temperature":20,"extra":v}` and `{"extra":v,"temperature":20}` of the
\* well-formed values v.
WithExtra ==
    LET known == <<34, 116, 101, 109, 112, 101, 114, 97, 116, 117, 114, 101, 34, 58, 50, 48>>
        extra == <<34, 101, 120, 116, 114, 97, 34, 58>>
    IN {<<123>> \o known \o <<44>> \o extra \o v \o <<125>> : v \in WellFormed}
       \cup {<<123>> \o extra \o v \o <<44>> \o known \o <<125>> : v \in WellFormed}

\* C17: applied to a well-formed string, array or object of any nesting
\* depth, deserialize_ignored_any succeeds, consumes exactly that value and
\* leaves the cursor at the first byte behind it; so a struct with only
\* `temperature` is decoded from a text with one more field, whatever the
\* shape of its value, with temperature = 20.
C17_IgnoredValue ==
    /\ (pc = "returned" /\ target = "IgnoredAny") =>
           \A tail \in Tails :
               LET n == Len(input) - Len(tail)
               IN (/\ n > 0
                   /\ SubSeq(input, n + 1, Len(input)) = tail
                   /\ SubSeq(input, 1, n) \in WellFormed
                   /\ input[1] \in {CH_QUOTE, CH_LBRACKET, CH_LBRACE})
                      => (Decoded.ok /\ Decoded.de.index = n)
    /\ (pc = "returned" /\ target = "Temperature" /\ input \in WithExtra) =>
           (result.tag = "Ok" /\ result.value = <<20>> /\ result.n = Len(input))

\* C17, the case of the claim: `{"temperature":20,"extra":{"a":[1,2]}}` was
\* decoded into the struct.
C17_Witness ==
    /\ pc = "returned"
    /\ target = "Temperature"
    /\ input = <<123, 34, 116, 101, 109, 112, 101, 114, 97, 116, 117, 114, 101, 34, 58, 50, 48,
                 44, 34, 101, 120, 116, 114, 97, 34, 58,
                 123, 34, 97, 34, 58, 91, 49, 44, 50, 93, 125, 125>>
    /\ result.tag = "Ok"
    /\ result.value = <<20>>

\* ---------------------------------------------------------------------------
\* Claims about the separators of an array
\* ---------------------------------------------------------------------------

\* The position in s of the opening bracket behind the leading whitespace.
Bracket(s) == LeadLen(s) + 1

RECURSIVE StrayAfter(_, _, _, _, _)
\* Scans the text of an array from position i: elements of one or two digits,
\* each but the first behind a comma. The number of elements in front of the
\* first byte that follows an element and is neither whitespace, `,` nor `]`;
\* 0 when the text has no such byte. n elements are complete, d digits of the
\* current element are read.
StrayAfter(s, i, at, n, d) ==
    IF i > Len(s) THEN 0
    ELSE IF at = "element"
         THEN IF s[i] \in 48..57
              THEN IF d < 2 THEN StrayAfter(s, i + 1, "element", n, d + 1) ELSE 0
              ELSE IF s[i] \in JsonWhitespace THEN StrayAfter(s, i + 1, "behind", n + 1, 0)
              ELSE IF s[i] = 44 THEN StrayAfter(s, i + 1, "comma", n + 1, 0)
              ELSE 0
    ELSE IF at = "behind"
         THEN IF s[i] \in JsonWhitespace THEN StrayAfter(s, i + 1, "behind", n, 0)
              ELSE IF s[i] = 44 THEN StrayAfter(s, i + 1, "comma", n, 0)
              ELSE IF s[i] = 93 THEN 0
              ELSE n
    ELSE IF s[i] \in JsonWhitespace THEN StrayAfter(s, i + 1, at, n, 0)
         ELSE IF s[i] \in 49..57 THEN StrayAfter(s, i + 1, "element", n, 1)
         ELSE 0

\* The number of elements in front of the stray byte of the input, the first
\* element right behind `[`; 0 when there is none.
Stray ==
    IF FirstSolid(input) = 91 THEN StrayAfter(input, Bracket(input) + 1, "open", 0, 0)
    ELSE 0

\* The visitor of the target type asks for an element behind n elements: the
\* visitor of an array for as many as the array has, the visitor of a
\* collection until the access object reports the end or an element is refused.
AsksBehind(n) ==
    IF target \in VecTargets THEN n <= target_len(target) ELSE n < target_len(target)

\* C21: after at least one element of an array has been read, a next byte that
\* is neither whitespace, `,` nor `]` makes the decode fail with
\* ExpectedListCommaOrEnd, for every target type, whether the byte is met by
\* next_element_seed or by end_seq.
C21_StrayByte ==
    (/\ pc = "returned"
     /\ target \in ArrayTargets \cup VecTargets
     /\ Stray >= 1
     /\ AsksBehind(0)) =>
        result.tag = "ExpectedListCommaOrEnd"

\* C21 (amended): the stray byte fails with ExpectedListCommaOrEnd when the
\* visitor asks for another element and next_element_seed meets it, and with
\* TrailingCharacters when the visitor has taken its elements and end_seq
\* meets it.
C21_StrayByteBySite ==
    (/\ pc = "returned"
     /\ target \in ArrayTargets \cup VecTargets
     /\ Stray >= 1
     /\ AsksBehind(0)) =>
        /\ AsksBehind(Stray) => result.tag = "ExpectedListCommaOrEnd"
        /\ (target \in ArrayTargets /\ Stray = target_len(target)) =>
              result.tag = "TrailingCharacters"

\* `[1 1]` was refused as a 2-element array by next_element_seed and as a
\* 1-element array by end_seq.
C21_Witness ==
    /\ pc = "returned"
    /\ target = "[u8;1]"
    /\ input = <<91, 49, 32, 49, 93>>
    /\ Stray = 1
    /\ result.tag = "TrailingCharacters"
    /\ from_slice(input, "[u8;2]").tag = "ExpectedListCommaOrEnd"

\* The first byte behind `[` and whitespace is a comma.
LeadingComma ==
    /\ FirstSolid(input) = 91
    /\ FirstSolid(SubSeq(input, Bracket(input) + 1, Len(input))) = 44

\* C22: a comma is accepted only between two elements: an array whose first
\* token after `[` is a comma is rejected, and an element without a comma in
\* front of it is accepted only as the first element of the array.
C22_CommaOnlySeparates ==
    (pc = "returned" /\ target \in ArrayTargets \cup VecTargets) =>
        /\ LeadingComma => result.tag # "Ok"
        /\ Stray >= 1 => result.tag # "Ok"

\* `[,1]` was read as the 1-element array [1], and `[,1 1]` is read as [1, 1].
C22_Witness ==
    /\ pc = "returned"
    /\ target = "[u8;1]"
    /\ input = <<91, 44, 49, 93>>
    /\ result = [tag |-> "Ok", value |-> <<1>>, n |-> 4]
    /\ from_slice(<<91, 44, 49, 32, 49, 93>>, "[u8;2]").tag = "Ok"

\* ---------------------------------------------------------------------------
\* Claims about the loops of the reader
\* ---------------------------------------------------------------------------

\* C23: in parse_str the backward scan leading_backslashes(index) never reads
\* a position below start - 1 and never underflows: the byte at start - 1 is
\* the opening quote, which stops the count, so count <= index - start at
\* every quote behind the opening one.
C23_BackwardScanBounded ==
    (pc = "returned" /\ target = "str" /\ IsStringInput) =>
        /\ result.tag # "panic"
        /\ ParsedStr.err # "panic"
        /\ \A index \in (LeadLen(input) + 1)..(Len(input) - 1) :
              input[index + 1] = 34 =>
                 /\ leading_backslashes(input, index, 0) # NONE
                 /\ leading_backslashes(input, index, 0) >= 0
                 /\ leading_backslashes(input, index, 0) <= index - (LeadLen(input) + 1)
                 /\ index - leading_backslashes(input, index, 0) - 1 >= LeadLen(input)

\* In `"\\"` the scan from the closing quote counted both backslashes and
\* stopped at the opening quote: count = index - start.
C23_Witness ==
    /\ pc = "returned"
    /\ target = "str"
    /\ input = <<34, 92, 92, 34>>
    /\ leading_backslashes(input, 3, 0) = 2
    /\ result = [tag |-> "Ok", value |-> <<92, 92>>, n |-> 4]

-----------------------------------------------------------------------------
(* Claims about the fragment iterator. *)

\* The number the four bytes behind `\u` name as hex digits.
HexValue(b) ==
    4096 * HexDigit(b[3]) + 256 * HexDigit(b[4]) + 16 * HexDigit(b[5]) + HexDigit(b[6])

\* C24: a `\u` escape is decoded only when it is followed by exactly four hex
\* digits naming a Unicode scalar value, and then consumes exactly six bytes;
\* fewer than four characters behind it, a character among the four that is no
\* hex digit (a sign such as `+` included) or a surrogate code point yield
\* InvalidEscapeSequence.
C24_UnicodeEscape ==
    pc \in {"iterating", "exhausted", "failed"} =>
        \A i \in 1..Len(fragments) :
            (Len(Before(i)) >= 2 /\ Before(i)[1] = 92 /\ Before(i)[2] = 117) =>
                IF /\ Len(Before(i)) >= 6
                   /\ \A k \in 3..6 : Before(i)[k] \in HexDigits
                   /\ HexValue(Before(i)) \notin 55296..57343
                THEN /\ fragments[i].kind = "Escaped"
                     /\ fragments[i].c = HexValue(Before(i))
                     /\ Len(Consumed(i)) = 6
                ELSE fragments[i].kind = "InvalidEscapeSequence"

\* `\u+041a` was yielded as the escaped character A and the text `a`.
C24_Witness ==
    /\ span = <<92, 117, 43, 48, 52, 49, 97>>
    /\ pc = "exhausted"
    /\ fragments = <<Escaped(65, <<97>>), NotEscaped(<<97>>, <<>>)>>

\* Every call that yielded an Ok fragment left the iterator over a shorter text.
Shortens ==
    \A i \in 1..Len(fragments) :
        fragments[i].ok => Len(fragments[i].rest) < Len(Before(i))

RECURSIVE Calls(_, _)
\* What n calls of next() yield on an iterator over the text s.
Calls(s, n) ==
    IF n = 0 \/ ~next(s).some THEN <<>>
    ELSE <<next(s).item>> \o Calls(next(s).rest, n - 1)

\* The fragments yielded so far are those of a fresh iterator over the span,
\* on the first pass and on every later one.
SameSequence == fragments = Calls(span, Len(fragments))

\* C25: the fragment sequence is finite: for every span, repeatedly calling
\* next() eventually returns None; every call that yields an Ok fragment
\* strictly shortens the remaining slice, and an iterator derived again from
\* the original EscapedStr yields the same sequence.
C25_FragmentsFinite ==
    /\ [](pc \in {"iterating", "exhausted", "failed"} => Shortens /\ SameSequence)
    /\ (pc = "iterating") ~> (pc = "exhausted")

\* The parts of C25 that hold: Ok fragments shorten the text, every pass
\* yields the same sequence, and an iteration ends with None or with an error.
C25_FiniteOrFailed ==
    /\ [](pc \in {"iterating", "exhausted", "failed"} => Shortens /\ SameSequence)
    /\ (pc = "iterating") ~> (pc \in {"exhausted", "failed"})

\* On `a\x` next() yielded the text `a`, then the error, and the error again
\* on each later call: None is never returned.
C25_Witness ==
    /\ span = <<97, 92, 120>>
    /\ pc = "failed"
    /\ remaining = <<92, 120>>
    /\ Len(fragments) = 4
    /\ fragments[1] = NotEscaped(<<97>>, <<92, 120>>)
    /\ \A i \in 2..4 : fragments[i] = InvalidEscapeSequence(<<92, 120>>)

\* C26: once next() has returned an error the iterator does not continue past
\* it: the failing call leaves the remaining slice unchanged and no later call
\* yields an Ok fragment; the only error kind is InvalidEscapeSequence.
C26_FailFast ==
    pc \in {"iterating", "exhausted", "failed"} =>
        /\ \A i \in 1..Len(fragments) :
              ~fragments[i].ok =>
                 /\ fragments[i].kind = "InvalidEscapeSequence"
                 /\ fragments[i].rest = Before(i)
                 /\ \A j \in (i + 1)..Len(fragments) : ~fragments[j].ok
                 /\ remaining = Before(i)
        /\ pc = "failed" <=> (fragments # <<>> /\ ~fragments[Len(fragments)].ok)

\* `A\uD800`: the character A was yielded, the surrogate failed, and the
\* call after the failure failed again at the same place.
C26_Witness ==
    /\ span = <<92, 117, 48, 48, 52, 49, 92, 117, 68, 56, 48, 48>>
    /\ pc = "failed"
    /\ remaining = <<92, 117, 68, 56, 48, 48>>
    /\ Len(fragments) = 3
    /\ fragments[1] = Escaped(65, remaining)
    /\ fragments[2] = InvalidEscapeSequence(remaining)
    /\ fragments[3] = InvalidEscapeSequence(remaining)

-----------------------------------------------------------------------------
(* Claims about a bare token that is ignored. *)

Delimiters == {44, 125, 93}

\* The errors that report the end of the input.
EofErrors ==
    {"EofWhileParsingList", "EofWhileParsingObject", "EofWhileParsingString",
     "EofWhileParsingNumber", "EofWhileParsingValue"}

\* The positions of the delimiters of the input behind its leading whitespace.
DelimitersAt == {k \in (LeadLen(input) + 1)..Len(input) : input[k] \in Delimiters}

\* C27: when the first byte behind the whitespace is none of `"`, `[`, `{`,
\* `,`, `}`, `]`, deserialize_ignored_any consumes the bytes up to but not
\* including the next `,`, `}` or `]`, whatever they are, and returns unit with
\* the cursor on that delimiter; when the first byte is `,`, `}` or `]` it
\* fails with ExpectedSomeValue and consumes nothing of it; when the input
\* ends before a delimiter it fails with an end-of-input error.
C27_BareToken ==
    (pc = "returned" /\ target = "IgnoredAny") =>
        /\ (FirstSolid(input) \notin {NONE, 34, 91, 123} \cup Delimiters /\ DelimitersAt # {}) =>
              /\ Decoded.ok
              /\ Decoded.v = <<>>
              /\ Decoded.de.index = Least(DelimitersAt) - 1
              /\ result.tag = "TrailingCharacters"
        /\ (FirstSolid(input) \notin {34, 91, 123} \cup Delimiters /\ DelimitersAt = {}) =>
              /\ ~Decoded.ok
              /\ Decoded.err \in EofErrors
              /\ result.tag = Decoded.err
        /\ FirstSolid(input) \in Delimiters =>
              /\ ~Decoded.ok
              /\ Decoded.err = "ExpectedSomeValue"
              /\ Decoded.de.index = LeadLen(input)
              /\ result.tag = "ExpectedSomeValue"

\* ` t",`: the letter and the quote were passed over and the cursor stands on
\* the comma.
C27_Witness ==
    /\ pc = "returned"
    /\ target = "IgnoredAny"
    /\ input = <<32, 116, 34, 44>>
    /\ Decoded.ok
    /\ Decoded.de.index = 3
    /\ result.tag = "TrailingCharacters"

\* Every iteration of a loop returns or advances the index by exactly one
\* byte, and none moves it otherwise or touches the input.
Advances ==
    pc = "looping" =>
        /\ input' = input
        /\ access'.index \in {access.index, access.index + 1}
        /\ pc' = "returned" \/ access'.index = access.index + 1

\* C28: every decode returns: every iteration of the loops of
\* parse_whitespace, parse_str, the integer digit accumulation, the float
\* character scan and the ignored-any skip either returns or advances index
\* by exactly one byte, so the number of iterations is bounded by the input
\* length and the loop is left.
C28_LoopsTerminate ==
    /\ [][Advances]_vars
    /\ [](result.n <= access.index /\ access.index <= Len(input))
    /\ <>(pc = "returned")

\* The loops, run an iteration a step, return what the reader's operators
\* compute for the same text and cursor.
C28_LoopsAgree ==
    pc = "returned" =>
        LET at == [slice |-> input, index |-> result.n]
            r == CASE access.op = "parse_whitespace" ->
                         DeOk(parse_whitespace(at).peek, parse_whitespace(at).de)
                   [] access.op = "parse_str" -> parse_str(at)
                   [] access.op \in {"deserialize_unsigned", "deserialize_signed"} ->
                         accumulate_digits(at,
                                           (input[result.n] - 48)
                                               * loop_sign(access.op, input, result.n),
                                           loop_sign(access.op, input, result.n), access.T)
                   [] access.op = "deserialize_ignored_any" -> ignore_loop(at)
                   [] OTHER -> DeOk(0, at)
        IN access.op # "deserialize_fromstr" =>
              /\ r.de.index = access.index
              /\ result.tag = IF r.ok THEN "Ok" ELSE r.err
              /\ (r.ok /\ access.op \notin {"parse_str", "deserialize_ignored_any"}) =>
                    result.value = r.v

\* In `"\""` behind the opening quote parse_str passed the backslash and the
\* escaped quote and returned at the closing quote, three iterations for
\* three bytes.
C28_Witness ==
    /\ pc = "returned"
    /\ access.op = "parse_str"
    /\ input = <<34, 92, 34, 34>>
    /\ result.n = 1
    /\ access.index = 4
    /\ result.tag = "Ok"

-----------------------------------------------------------------------------
(* Claims about the rendering of integers. *)

\* The canonical decimal text of an integer.
Canonical(v) == IF v < 0 THEN <<45>> \o Decimal(0 - v) ELSE Decimal(v)

\* The digit loop of the value of the state: its buffer, the index it ends
\* at, and whether it went out of the buffer.
DigitLoop ==
    IF is_signed(target)
    THEN signed_loop(uninit_array(digits_N(target)), digits_N(target) - 1,
                     signed_magnitude(target, op.arg.v))
    ELSE unsigned_loop(uninit_array(digits_N(target)), digits_N(target) - 1, op.arg.v)

\* C29: for every value v of every integer type serialize_unsigned! /
\* serialize_signed! write exactly the canonical decimal text of v: no leading
\* zeros, a single `-` for negatives, `0` for zero, the most negative value
\* included; the index i of the digit buffer stays within 0..N-1 and the
\* magnitude computation does not overflow.
C29_IntegerRendering ==
    pc = "encoded" =>
        /\ ret.tag = "Ok"
        /\ ~panicked
        /\ Slice(buf, 0, ret.n) = Canonical(op.arg.v)
        /\ ~DigitLoop.panicked
        /\ DigitLoop.i \in 0..(digits_N(target) - 1)
        /\ is_signed(target) =>
              signed_magnitude(target, op.arg.v) = IF op.arg.v < 0 THEN 0 - op.arg.v ELSE op.arg.v

\* -128 as i8 was written as `-128`, the digit loop ending at i = 0.
C29_Witness ==
    /\ pc = "encoded"
    /\ target = "i8"
    /\ op.arg.v = 0 - 128
    /\ Slice(buf, 0, ret.n) = <<45, 49, 50, 56>>
    /\ DigitLoop.i = 0

-----------------------------------------------------------------------------
(* Claims about the three sinks. *)

\* What the last call returned on the Serializer.
SerializerOk == ret.tag = "Ok"

\* C30: over buffers of equal capacity and any sequence of push and
\* extend_from_slice calls, Serializer, SliceSerializer and Slice succeed and
\* fail on the same calls and hold the same written bytes and the same length
\* afterwards; a run that exactly fills the remaining capacity is accepted by
\* all three.
C30_SinksEquivalent ==
    pc = "sinks" =>
        /\ sinks.backend_ok = SerializerOk
        /\ sinks.slice_ok = SerializerOk
        /\ sinks.backend.current_length = current_length
        /\ sinks.slice.index = current_length
        /\ sinks.backend.buf = buf
        /\ sinks.slice.buf = buf
        /\ (op.name = "extend_from_slice" /\ current_length = Len(buf) /\ op.arg # <<>>) =>
              SerializerOk

\* What holds: Serializer and SliceSerializer agree on every call, and Slice
\* never holds more than they do.
C30_SerializerAndBackend ==
    pc = "sinks" =>
        /\ sinks.backend_ok = SerializerOk
        /\ sinks.backend.current_length = current_length
        /\ sinks.backend.buf = buf
        /\ ~sinks.backend.panicked /\ ~panicked
        /\ sinks.slice.index <= current_length

\* `ab` into buffers of two bytes: Serializer and SliceSerializer hold `ab`,
\* Slice refused the run and holds nothing.
C30_Witness ==
    /\ pc = "sinks"
    /\ op = [name |-> "extend_from_slice", arg |-> <<97, 98>>]
    /\ buf = <<97, 98>> /\ current_length = 2 /\ SerializerOk
    /\ sinks.backend.buf = <<97, 98>> /\ sinks.backend_ok
    /\ sinks.slice = [buf |-> <<0, 0>>, index |-> 0]
    /\ ~sinks.slice_ok

=============================================================================
